---------------------------- MODULE Spec2Model ----------------------------
(***************************************************************************)
(* Motion-capture telemetry pipeline: node firmware (esp32/node/main.py)   *)
(* and receiver firmware (esp32/receiver/main.py).                         *)
(*                                                                         *)
(* Text is modelled as a sequence of chunks (TLA+ strings).  Frames that   *)
(* the code parses are sequences of one-character chunks, so that split,   *)
(* strip, upper, startswith and int() are computed as the code computes    *)
(* them.                                                                   *)
(***************************************************************************)
EXTENDS Integers, Sequences, FiniteSets, TLC

(***************************************************************************)
(* Bounds of the model.                                                    *)
(***************************************************************************)
MaxCmds == 2          \* command frames the node command server processes
MaxReaders == 2       \* sensor_reading_thread instances alive at once
MaxTick == 1          \* read-loop ticks per thread in the full node model
MaxFaultSlot == 0     \* sensor slots 0..MaxFaultSlot may fail at run time
MaxGen == 1           \* times the receiver's main loop starts its service threads
MaxHostCmds == 2      \* host command lines the receiver processes
MaxSeqStep == 2       \* width of the sequence-number samples around 0, 1000, 65535
MaxConnThreads == 1   \* receiver_connection_thread instances the node's main() starts
MaxSocks == 2         \* control sockets the node creates
MaxWire == 2          \* frames a control connection holds between send and recv
TickSeconds == 30     \* seconds by which the receiver's clock advances in one step
MaxStreamCmds == 3    \* S, X and I frames the node processes in the streaming model
MaxPasses == 4        \* passes of main()'s initialization loop
MaxChecks == 3        \* health checks of one read loop
MaxLateMs == 7        \* ms by which a health check is later than its interval
MaxLockThreads == 2   \* threads of one device that use its locks at the same time

(***************************************************************************)
(* Program constants.                                                      *)
(***************************************************************************)
HEARTBEAT_TIMEOUT == 60
NumSensors == 8
init_retries == 5
check_interval == 5000
SeqModulus == 65536
max_failures == 3
max_errors == 10
LossSanityBound == 1000
LOG_DEBUG == 0
LOG_INFO == 1
LOG_WARNING == 2
LOG_ERROR == 3

Slots == 0 .. (NumSensors - 1)
None == "None"

(***************************************************************************)
(* Text helpers (Python str methods used by the code).                     *)
(***************************************************************************)
Digits == <<"0", "1", "2", "3", "4", "5", "6", "7", "8", "9">>

IsDigit(c) == \E i \in 1..10 : Digits[i] = c

DigitVal(c) == (CHOOSE i \in 1..10 : Digits[i] = c) - 1

IsSpace(c) == c \in {" ", "\n", "\r", "\t"}

\* str.upper() on one character
UpperChar(c) ==
    CASE c = "n" -> "N" [] c = "c" -> "C" [] c = "i" -> "I" [] c = "s" -> "S"
      [] c = "x" -> "X" [] c = "q" -> "Q" [] c = "d" -> "D" [] c = "p" -> "P"
      [] c = "z" -> "Z" [] c = "r" -> "R" [] c = "e" -> "E"
      [] OTHER -> c

Upper(s) == [i \in 1..Len(s) |-> UpperChar(s[i])]

RECURSIVE LStrip(_)
LStrip(s) == IF s # <<>> /\ IsSpace(Head(s)) THEN LStrip(Tail(s)) ELSE s

RECURSIVE RStrip(_)
RStrip(s) ==
    IF s # <<>> /\ IsSpace(s[Len(s)]) THEN RStrip(SubSeq(s, 1, Len(s) - 1)) ELSE s

\* str.strip()
Strip(s) == RStrip(LStrip(s))

\* index of the first occurrence of character c in s, 0 when there is none
IndexOf(s, c) ==
    IF \E i \in 1..Len(s) : s[i] = c
    THEN CHOOSE i \in 1..Len(s) : s[i] = c /\ \A j \in 1..(i - 1) : s[j] # c
    ELSE 0

\* str.split(c, 1): a sequence of one or two parts
SplitOnce(s, c) ==
    LET k == IndexOf(s, c)
    IN IF k = 0 THEN <<s>>
       ELSE <<SubSeq(s, 1, k - 1), SubSeq(s, k + 1, Len(s))>>

\* str.split(c): every part
RECURSIVE Split(_, _)
Split(s, c) ==
    LET k == IndexOf(s, c)
    IN IF k = 0 THEN <<s>>
       ELSE <<SubSeq(s, 1, k - 1)>> \o Split(SubSeq(s, k + 1, Len(s)), c)

\* str.startswith(p)
StartsWith(s, p) == Len(s) >= Len(p) /\ SubSeq(s, 1, Len(p)) = p

RECURSIVE DigitsValue(_)
DigitsValue(s) ==
    IF s = <<>> THEN 0
    ELSE 10 * DigitsValue(SubSeq(s, 1, Len(s) - 1)) + DigitVal(s[Len(s)])

\* int(s): surrounding whitespace and one sign are accepted, then decimal
\* digits only; anything else raises ValueError (ok = FALSE)
ParseInt(s) ==
    LET t == Strip(s)
        signed == t # <<>> /\ Head(t) \in {"-", "+"}
        body == IF signed THEN Tail(t) ELSE t
        good == body # <<>> /\ \A i \in 1..Len(body) : IsDigit(body[i])
    IN IF good
       THEN [ok |-> TRUE,
             val |-> IF signed /\ Head(t) = "-" THEN 0 - DigitsValue(body)
                     ELSE DigitsValue(body)]
       ELSE [ok |-> FALSE, val |-> 0]

RECURSIVE FormatNat(_)
\* "{}".format(n) for a natural number n
FormatNat(n) ==
    IF n < 10 THEN <<Digits[n + 1]>>
    ELSE FormatNat(n \div 10) \o <<Digits[(n % 10) + 1]>>


(***************************************************************************)
(* State.                                                                  *)
(***************************************************************************)
VARIABLES
    \* ---- node (esp32/node/main.py) ----
    reading_enabled,      \* global flag of the read loop
    sensors,              \* sensors[idx] # None, per slot
    current_log_level,    \* node log threshold
    emergency_stop,       \* node emergency flag
    node_main,            \* position of main(): "wifi", "sensors", "running",
                          \* "safe_mode", "halted"
    failures,             \* main's failure counter
    node_reset,           \* machine.reset() was executed
    srv_pc,               \* command server holding the port: "none", "accept",
                          \* "recv", "exit"
    readers,              \* sensor_reading_thread instances: pc, seq_num, sent
    \* ---- node, history ----
    ncmds,                \* command frames processed so far
    lastCmd,              \* what handle_command_client did with the last frame
    lastDSet,             \* level of the last accepted D:<level>, -1 if none
    levelWriter,          \* who wrote current_log_level last
    consec,               \* consecutive failures per initialization stage
    \* ---- receiver (esp32/receiver/main.py) ----
    rx_emergency_stop,    \* emergency_stop
    rx_log_level,         \* current_log_level
    rx_main,              \* position of main(): "ap", "tcp", "running",
                          \* "safe_mode", "halted", "stopped"
    rx_failures,          \* main's failure counter
    rx_reset,             \* machine.reset() was executed
    rx_safe,              \* safe_mode()'s locals was_emergency, old_log_level
    rx_gens,              \* the objects and threads of each start of the
                          \* services: CommandHandler, TCPServer, UDPServer
    \* ---- receiver, history ----
    rx_ncmds,             \* host command lines processed so far
    rx_consec,            \* consecutive failures per initialization stage
    rx_safe_cause,        \* the stage whose failure led into safe_mode()
    rx_cmds_in_safe,      \* host command lines processed while in safe_mode()
    rx_out,               \* last bytes the UDP consumer wrote to the host
    rx_lost,              \* loss the consumer reported for the last datagram
    rx_seen,              \* last_seq before and the datagram of the last receive
    rx_relay,             \* the last host command line and what its handler did, in order
    \* control channel, node side
    receiver_tcp,         \* global receiver_tcp: 0 (None) or a socket id
    socks,                \* the control sockets the node created
    conn_threads,         \* receiver_connection_thread instances
    \* control channel, receiver side
    handlers,             \* TCPServer.handle_client threads, one per accepted connection
    wire,                 \* per connection: the frames sent and not yet received
    last_heartbeat,       \* TCPServer.last_heartbeat: 0, or the connection whose heartbeat set it last
    \* control channel, history
    ctl_store,            \* the last replacement of receiver_tcp: previous and new handle
    ctl_recv,             \* the last recv() of handle_client and what was done with it
    hb_clock,             \* per connection: seconds since last_activity, seconds since
                          \* a frame last arrived, and whether the handler timed out
    \* one call of a function, observed
    call,                 \* the function, its arguments and environment, and what it did
    \* node, threads of system_status_thread
    status_threads,       \* TRUE while system_status_thread instances are in their loop
    \* node, the I2C bus behind the multiplexer
    i2c,                  \* who holds sensor_lock, and which threads are between a
                          \* channel selection and the end of the sensor operation
    \* both devices, the lock use of their threads
    thr                   \* per thread: its device, the lock events of the code it
                          \* runs, and the event it has come to

rx_vars == <<rx_emergency_stop, rx_log_level, rx_main, rx_failures, rx_reset,
             rx_safe, rx_gens, rx_ncmds, rx_consec, rx_safe_cause,
             rx_cmds_in_safe, rx_out, rx_lost, rx_seen, rx_relay>>

node_vars == <<reading_enabled, sensors, current_log_level, emergency_stop,
               node_main, failures, node_reset, srv_pc, readers,
               ncmds, lastCmd, lastDSet, levelWriter, consec>>

ctl_vars == <<receiver_tcp, socks, conn_threads, handlers, wire,
              last_heartbeat, ctl_store, ctl_recv, hb_clock>>

FaultSlots == 0 .. MaxFaultSlot

\* outcomes of the hardware at init_sensors: the set of slots constructed
InitOutcomes == {Slots, {}, Slots \ FaultSlots}

ReaderIds == 1 .. MaxReaders

IdleReader == [pc |-> "idle", seq_num |-> 0, sent |-> -1]

ConnIds == 1 .. MaxConnThreads

SockIds == 1 .. MaxSocks

\* a receiver_connection_thread that main() has not started
IdleConn == [pc |-> "idle", sock |-> 0, lost_by |-> "none", waited |-> FALSE]

\* _thread.start_new_thread(receiver_connection_thread, ())
StartConnThread(ct) ==
    IF \E t \in ConnIds : ct[t].pc = "idle"
    THEN LET t == CHOOSE u \in ConnIds :
                    /\ ct[u].pc = "idle"
                    /\ \A v \in ConnIds : ct[v].pc = "idle" => u <= v
         IN [ct EXCEPT ![t].pc = "connect"]
    ELSE ct

\* level names with the two highest exchanged
modes_exchanged == <<"DEBUG", "INFO", "ERROR", "WARNING">>

\* the names set_debug_mode gives the levels 0..3
modes == <<"DEBUG", "INFO", "WARNING", "ERROR">>

(***************************************************************************)
(* The node's shared state as the command handlers see it.                 *)
(***************************************************************************)
NodeSt == [re |-> reading_enabled, sensors |-> sensors,
           lvl |-> current_log_level, es |-> emergency_stop,
           readers |-> readers]

Result(st, response, success, should_restart) ==
    [st |-> st, response |-> response, success |-> success,
     should_restart |-> should_restart]

\* _thread.start_new_thread(sensor_reading_thread, ()): a thread at its entry
StartReaderThread(rd) ==
    IF \E t \in ReaderIds : rd[t].pc = "idle"
    THEN LET t == CHOOSE t \in ReaderIds :
                    rd[t].pc = "idle" /\ \A u \in 1..(t - 1) : rd[u].pc # "idle"
         IN [rd EXCEPT ![t] = [pc |-> "start", seq_num |-> 0, sent |-> -1]]
    ELSE rd

\* init_sensors(): the array is cleared, each slot constructed or not;
\* success iff at least one was constructed
init_sensors(constructed) ==
    [sensors |-> [i \in Slots |-> i \in constructed],
     success |-> Cardinality(constructed) > 0]

\* a check_sensor_status() that marks every slot that answers as present
check_sensor_status_reviving(sens, bad) ==
    [sensors |-> [i \in Slots |-> i \notin bad],
     status_list |-> [k \in 1..NumSensors |->
                        IF (k - 1) \in bad THEN "Error checking status"
                        ELSE "Connected"]]

\* check_sensor_status(): a present slot whose cal_status() raises becomes absent
check_sensor_status(sens, bad) ==
    [sensors |-> [i \in Slots |-> sens[i] /\ i \notin bad],
     status_list |-> [k \in 1..NumSensors |->
                        IF ~sens[k - 1] THEN "Not Initialized"
                        ELSE IF (k - 1) \in bad THEN "Error checking status"
                        ELSE "Connected"]]

(***************************************************************************)
(* Command handlers: (params, st, env) -> response, success, should_restart*)
(* env carries what the hardware does during the handler.                  *)
(***************************************************************************)
restart_node(params, st, env) ==
    Result(st, <<"Restarting node...">>, TRUE, TRUE)

check_sensor_command(params, st, env) ==
    LET r == check_sensor_status(st.sensors, env.bad)
    IN Result([st EXCEPT !.sensors = r.sensors], r.status_list, TRUE, FALSE)

reinitialize_sensors(params, st, env) ==
    LET was_reading == st.re
        r == init_sensors(env.constructed)
        st1 == [st EXCEPT !.re = FALSE, !.sensors = r.sensors]
        st2 == IF was_reading /\ r.success
               THEN [st1 EXCEPT !.re = TRUE,
                                !.readers = StartReaderThread(st1.readers)]
               ELSE st1
    IN Result(st2,
              <<"Sensors reinitialized. Success: ",
                IF r.success THEN "True" ELSE "False">>,
              r.success, FALSE)

start_streaming(params, st, env) ==
    IF ~st.re
    THEN Result([st EXCEPT !.re = TRUE,
                           !.readers = StartReaderThread(st.readers)],
                <<"Sensor reading started.">>, TRUE, FALSE)
    ELSE Result(st, <<"Sensor reading already running.">>, TRUE, FALSE)

\* a stop_streaming() that reports a failure when nothing is streaming
stop_streaming_strict(params, st, env) ==
    IF st.re
    THEN Result([st EXCEPT !.re = FALSE], <<"Sensor reading stopped.">>,
                TRUE, FALSE)
    ELSE Result(st, <<"Sensor reading not running.">>, FALSE, FALSE)

stop_streaming(params, st, env) ==
    IF st.re
    THEN Result([st EXCEPT !.re = FALSE], <<"Sensor reading stopped.">>,
                TRUE, FALSE)
    ELSE Result(st, <<"Sensor reading not running.">>, TRUE, FALSE)

emergency_stop_command(params, st, env) ==
    Result([st EXCEPT !.es = TRUE],
           <<"Emergency stop activated. Stopping all threads.">>, TRUE, FALSE)

\* a D handler that answers the level query whatever the parameter is
set_debug_mode_lenient(params, st, env) ==
    Result(st, <<"Current log level: ", modes[st.lvl + 1]>>, TRUE, FALSE)

set_debug_mode(params, st, env) ==
    IF params # None /\ Len(params) > 0
    THEN LET p == ParseInt(params)
         IN IF ~p.ok
            THEN Result(st, <<"Error setting debug mode: ">> \o params,
                        FALSE, FALSE)
            ELSE IF 0 <= p.val /\ p.val <= 3
            THEN Result([st EXCEPT !.lvl = p.val],
                        <<"Log level set to ", modes[p.val + 1]>>, TRUE, FALSE)
            ELSE Result(st, <<"Invalid log level: ">>
                              \o (IF p.val < 0 THEN <<"-">> \o FormatNat(0 - p.val)
                                  ELSE FormatNat(p.val))
                              \o <<". Must be 0-3.">>, FALSE, FALSE)
    ELSE Result(st, <<"Current log level: ", modes[st.lvl + 1]>>, TRUE, FALSE)

ping_command(params, st, env) ==
    Result(st, <<"PONG">>, TRUE, FALSE)

\* the keys of command_handlers
CommandCodes == {<<"N">>, <<"C">>, <<"I">>, <<"S">>, <<"X">>, <<"Q">>, <<"D">>,
                 <<"P">>}

\* command_handlers[cmd](params)
Dispatch(cmd, params, st, env) ==
    CASE cmd = <<"N">> -> restart_node(params, st, env)
      [] cmd = <<"C">> -> check_sensor_command(params, st, env)
      [] cmd = <<"I">> -> reinitialize_sensors(params, st, env)
      [] cmd = <<"S">> -> start_streaming(params, st, env)
      [] cmd = <<"X">> -> stop_streaming(params, st, env)
      [] cmd = <<"Q">> -> emergency_stop_command(params, st, env)
      [] cmd = <<"D">> -> set_debug_mode(params, st, env)
      [] cmd = <<"P">> -> ping_command(params, st, env)

\* cmd_str.split(':', 1), upper
ParseCommand(data) ==
    LET cmd_parts == SplitOnce(Strip(data), ":")
    IN [cmd |-> Upper(cmd_parts[1]),
        params |-> IF Len(cmd_parts) > 1 THEN cmd_parts[2] ELSE None]

\* a command server that also lets D through while streaming
StreamingAllowedWithD == {<<"X">>, <<"Q">>, <<"P">>, <<"D">>}

\* the codes handle_command_client accepts while reading_enabled is true
StreamingAllowed == {<<"X">>, <<"Q">>, <<"P">>}

\* a command server that sends the status reply before a restart as well
SendRepliesAlways(response, success, should_restart) ==
    << <<IF success THEN "OK:" ELSE "ERROR:">> \o response >>
    \o (IF should_restart THEN << <<"OK:", "Restarting node...">> >> ELSE <<>>)

\* The replies handle_command_client sends for one frame: the status-prefixed
\* response unless a restart follows, and the restart notice before the reset.
SendReplies(response, success, should_restart) ==
    (IF ~should_restart
     THEN << <<IF success THEN "OK:" ELSE "ERROR:">> \o response >>
     ELSE <<>>)
    \o (IF should_restart THEN << <<"OK:", "Restarting node...">> >> ELSE <<>>)

\* handle_command_client, one received frame
handle_command_client(data, st, env) ==
    LET pc == ParseCommand(data)
        cmd == pc.cmd
        is_streaming == st.re
        r == IF is_streaming /\ cmd \notin StreamingAllowed
             THEN Result(st, <<"ERROR: Cannot execute '">> \o cmd
                               \o <<"' while streaming. Stop streaming first (X command).">>,
                         FALSE, FALSE)
             ELSE IF cmd \in CommandCodes
             THEN Dispatch(cmd, pc.params, st, env)
             ELSE Result(st, <<"Unknown command: ">> \o cmd, FALSE, FALSE)
    IN [st |-> r.st,
        cmd |-> cmd,
        params |-> pc.params,
        is_streaming |-> is_streaming,
        handled |-> ~(is_streaming /\ cmd \notin StreamingAllowed)
                     /\ cmd \in CommandCodes,
        success |-> r.success,
        replies |-> SendReplies(r.response, r.success, r.should_restart),
        \* machine.reset() is reached when the send of the restart notice returns
        reset |-> r.should_restart /\ env.send = "sent",
        \* an OSError other than a timeout breaks the loop: the client is closed
        broke |-> r.should_restart /\ env.send = "error"]


(***************************************************************************)
(* Node: main() and safe_mode().                                           *)
(***************************************************************************)
NodeAlive == ~node_reset

Min(a, b) == IF a < b THEN a ELSE b

\* a stage failed: the failure counter and the SafeMode rule of main()
\* (failures += 1; if failures >= max_failures: safe_mode(); else retry)
StageFailed(stage) ==
    /\ failures' = failures + 1
    /\ consec' = IF stage \in DOMAIN consec
                 THEN [consec EXCEPT ![stage] = Min(max_failures, consec[stage] + 1)]
                 ELSE consec
    /\ IF failures + 1 >= max_failures
       THEN \* safe_mode(): most verbose logging, a command server is started
            /\ node_main' = "safe_mode"
            /\ current_log_level' = LOG_DEBUG
            /\ levelWriter' = "safe_mode"
            /\ srv_pc' = IF srv_pc = "none" THEN "accept" ELSE srv_pc
       ELSE /\ node_main' = "wifi"
            /\ UNCHANGED <<current_log_level, levelWriter, srv_pc>>

\* main(): connect_wifi() returned ok
NodeConnectWifi(ok) ==
    /\ NodeAlive /\ node_main = "wifi" /\ ~emergency_stop
    /\ IF ok
       THEN /\ failures' = 0
            /\ consec' = [consec EXCEPT !["wifi"] = 0]
            /\ node_main' = "sensors"
            /\ conn_threads' = StartConnThread(conn_threads)
            /\ UNCHANGED <<current_log_level, levelWriter, srv_pc>>
       ELSE StageFailed("wifi") /\ UNCHANGED conn_threads
    /\ UNCHANGED <<reading_enabled, sensors, emergency_stop, node_reset,
                   readers, ncmds, lastCmd, lastDSet>>
    /\ UNCHANGED <<receiver_tcp, socks, handlers, wire, last_heartbeat,
                   ctl_store, ctl_recv, hb_clock>>
    /\ UNCHANGED <<rx_vars, call, status_threads, i2c, thr>>

\* main(): init_sensors() constructed the given slots
NodeInitSensors(constructed) ==
    /\ NodeAlive /\ node_main = "sensors"
    /\ sensors' = init_sensors(constructed).sensors
    /\ IF init_sensors(constructed).success
       THEN /\ failures' = 0
            /\ consec' = [consec EXCEPT !["sensor"] = 0]
            /\ srv_pc' = IF srv_pc = "none" THEN "accept" ELSE srv_pc
            /\ node_main' = "running"
            \* the status reporting thread is started
            /\ status_threads' = TRUE
            /\ UNCHANGED <<current_log_level, levelWriter>>
       ELSE StageFailed("sensor") /\ UNCHANGED status_threads
    /\ UNCHANGED <<reading_enabled, emergency_stop, node_reset, readers,
                   ncmds, lastCmd, lastDSet>>
    /\ UNCHANGED <<rx_vars, ctl_vars, call, i2c, thr>>

\* main(): an exception escapes the health-monitoring loop
NodeMonitorError ==
    /\ NodeAlive /\ node_main = "running" /\ ~emergency_stop
    /\ StageFailed("monitor")
    /\ UNCHANGED <<reading_enabled, sensors, emergency_stop, node_reset,
                   readers, ncmds, lastCmd, lastDSet>>
    /\ UNCHANGED <<rx_vars, ctl_vars, call, status_threads, i2c, thr>>

\* main(): WiFi lost and the 3 reconnection attempts failed: machine.reset()
NodeWifiLostReset ==
    /\ NodeAlive /\ node_main = "running" /\ ~emergency_stop
    /\ node_reset' = TRUE
    /\ UNCHANGED <<reading_enabled, sensors, current_log_level, emergency_stop,
                   node_main, failures, srv_pc, readers, ncmds,
                   lastCmd, lastDSet, levelWriter, consec>>
    /\ UNCHANGED <<rx_vars, ctl_vars, call, status_threads, i2c, thr>>

\* main(): a loop condition sees the emergency flag; main ends ("System halted")
NodeMainObserveStop ==
    /\ NodeAlive /\ node_main \in {"wifi", "running"} /\ emergency_stop
    /\ node_main' = "halted"
    /\ UNCHANGED <<reading_enabled, sensors, current_log_level, emergency_stop,
                   failures, node_reset, srv_pc, readers, ncmds,
                   lastCmd, lastDSet, levelWriter, consec>>
    /\ UNCHANGED <<rx_vars, ctl_vars, call, status_threads, i2c, thr>>

\* KeyboardInterrupt in main(): emergency stop and cleanup_resources(); in
\* safe_mode() it only ends the safe-mode loop
NodeKeyboardInterrupt ==
    /\ NodeAlive /\ node_main \in {"wifi", "sensors", "running", "safe_mode"}
    /\ node_main' = "halted"
    /\ IF node_main = "safe_mode"
       THEN UNCHANGED <<emergency_stop, reading_enabled, receiver_tcp, socks>>
       ELSE /\ emergency_stop' = TRUE
            \* cleanup_resources(): reading off, receiver_tcp closed and forgotten
            /\ reading_enabled' = FALSE
            /\ receiver_tcp' = 0
            /\ socks' = IF receiver_tcp = 0 THEN socks
                        ELSE [socks EXCEPT ![receiver_tcp].st = "closed"]
    /\ UNCHANGED <<sensors, current_log_level, failures, node_reset,
                   srv_pc, readers, ncmds, lastCmd, lastDSet,
                   levelWriter, consec>>
    /\ UNCHANGED <<conn_threads, handlers, wire, last_heartbeat, ctl_store,
                   ctl_recv, hb_clock>>
    /\ UNCHANGED <<rx_vars, call, status_threads, i2c, thr>>

\* system_status_thread: the while condition, or the check between two of
\* the sixty one-second sleeps, sees the emergency flag and the thread ends
\* (every instance runs the same loop on the same flag)
StatusObserveStop ==
    /\ NodeAlive /\ status_threads /\ emergency_stop
    /\ status_threads' = FALSE
    /\ UNCHANGED <<node_vars, rx_vars, ctl_vars, call, i2c, thr>>

(***************************************************************************)
(* Node: tcp_command_server_thread and handle_command_client.              *)
(***************************************************************************)
\* frames the command server is sent
CmdFrames ==
    {<<"N">>, <<"C">>, <<"I">>, <<"S">>, <<"X">>, <<"Q">>, <<"D">>, <<"P">>,
     <<"Z">>, <<"s">>, <<"D", ":">>,
     <<"D", ":", "0">>, <<"D", ":", "1">>, <<"D", ":", "2">>, <<"D", ":", "3">>,
     <<"d", ":", "2">>, <<"D", ":", "5">>, <<"D", ":", "-", "1">>,
     <<"D", ":", "x">>, <<"P", "\n">>}

\* client_sock.send() of the restart notice: it returns, or raises OSError
\* with "timed out" in its text, or raises another OSError
SendOutcomes == {"sent", "timed out", "error"}

CmdEnvs == [bad : SUBSET FaultSlots, constructed : InitOutcomes, send : {"sent"}]

NoEnv == [bad |-> {}, constructed |-> Slots, send |-> "sent"]

\* the hardware is only touched by C (check) and I (reinitialize); the send
\* that no handler guards is the one of N
EnvsFor(data) ==
    IF ParseCommand(data).cmd \in {<<"C">>, <<"I">>} THEN CmdEnvs
    ELSE IF ParseCommand(data).cmd = <<"N">>
    THEN {[NoEnv EXCEPT !.send = o] : o \in SendOutcomes}
    ELSE {NoEnv}

\* accept() returned a client
SrvAccept ==
    /\ NodeAlive /\ srv_pc = "accept" /\ ~emergency_stop
    /\ srv_pc' = "recv"
    /\ UNCHANGED <<reading_enabled, sensors, current_log_level, emergency_stop,
                   node_main, failures, node_reset, readers,
                   ncmds, lastCmd, lastDSet, levelWriter, consec>>
    /\ UNCHANGED <<rx_vars, ctl_vars, call, status_threads, i2c, thr>>

\* recv() returned no data: the client closed
SrvClientClosed ==
    /\ NodeAlive /\ srv_pc = "recv"
    /\ srv_pc' = "accept"
    /\ UNCHANGED <<reading_enabled, sensors, current_log_level, emergency_stop,
                   node_main, failures, node_reset, readers,
                   ncmds, lastCmd, lastDSet, levelWriter, consec>>
    /\ UNCHANGED <<rx_vars, ctl_vars, call, status_threads, i2c, thr>>

\* a command server whose recv() has no timeout
SrvObserveStopNoRecvTimeout ==
    /\ NodeAlive /\ srv_pc = "accept" /\ emergency_stop
    /\ srv_pc' = "exit"
    /\ UNCHANGED <<reading_enabled, sensors, current_log_level, emergency_stop,
                   node_main, failures, node_reset, readers,
                   ncmds, lastCmd, lastDSet, levelWriter, consec>>
    /\ UNCHANGED <<rx_vars, ctl_vars, call, status_threads, i2c, thr>>

\* a timeout brings the thread to a loop condition that sees the flag
SrvObserveStop ==
    /\ NodeAlive /\ srv_pc \in {"accept", "recv"} /\ emergency_stop
    /\ srv_pc' = "exit"
    /\ UNCHANGED <<reading_enabled, sensors, current_log_level, emergency_stop,
                   node_main, failures, node_reset, readers,
                   ncmds, lastCmd, lastDSet, levelWriter, consec>>
    /\ UNCHANGED <<rx_vars, ctl_vars, call, status_threads, i2c, thr>>

\* recv() returned a frame: handle_command_client processes it
NodeCommand(data, env) ==
    /\ NodeAlive /\ srv_pc = "recv"
    /\ \E r \in {handle_command_client(data, NodeSt, env)} :
       LET starts == r.st.readers # readers
           dset == r.handled /\ r.cmd = <<"D">> /\ r.params # None
                   /\ Len(r.params) > 0 /\ r.success
       IN \* a thread the handler starts needs a free thread slot of the model
          /\ (r.handled /\ r.cmd = <<"S">> /\ ~reading_enabled) => starts
          /\ reading_enabled' = r.st.re
          /\ sensors' = r.st.sensors
          /\ current_log_level' = r.st.lvl
          /\ emergency_stop' = r.st.es
          /\ readers' = r.st.readers
          /\ node_reset' = r.reset
          /\ srv_pc' = IF r.broke THEN "accept"
                       ELSE IF r.st.es THEN "exit" ELSE "recv"
          /\ ncmds' = ncmds + 1
          /\ lastCmd' = [frame |-> data, cmd |-> r.cmd, params |-> r.params,
                         is_streaming |-> r.is_streaming, handled |-> r.handled,
                         success |-> r.success, replies |-> r.replies,
                         reset |-> r.reset,
                         \* the frame before this one, kept when it was a D frame
                         prev_d_frame |-> IF lastCmd.cmd = <<"D">>
                                          THEN lastCmd.frame ELSE <<>>]
          /\ lastDSet' = IF dset THEN r.st.lvl ELSE lastDSet
          /\ levelWriter' = IF dset THEN "D" ELSE levelWriter
    /\ UNCHANGED <<node_main, failures, consec>>
    /\ UNCHANGED <<rx_vars, ctl_vars, call, status_threads, i2c, thr>>


(***************************************************************************)
(* Node: sensor_reading_thread.                                            *)
(***************************************************************************)
\* a counter that is never reduced
NextSeqNoWrap(n) == n + 1

\* seq_num = (seq_num + 1) % 65536
NextSeq(n) == (n + 1) % SeqModulus

\* what the hardware does during one tick: the slot the periodic health check
\* probes (-1: no check due), whether the probe raises, and the slots whose
\* quaternion() raises
TickEnvs ==
    {e \in [probe : {-1} \cup Slots, probe_fails : BOOLEAN,
            bad : SUBSET FaultSlots] :
       e.probe_fails => e.probe \in FaultSlots}

\* with reading_lock: reading_enabled = True, before the loop
ReaderStart(t) ==
    /\ NodeAlive /\ readers[t].pc = "start"
    /\ reading_enabled' = TRUE
    /\ readers' = [readers EXCEPT ![t].pc = "loop"]
    /\ UNCHANGED <<sensors, current_log_level, emergency_stop, node_main,
                   failures, node_reset, srv_pc, ncmds, lastCmd,
                   lastDSet, levelWriter, consec>>
    /\ UNCHANGED <<rx_vars, ctl_vars, call, status_threads, i2c, thr>>

\* one iteration of the while loop
ReaderTick(t, env) ==
    /\ NodeAlive /\ readers[t].pc = "loop"
    /\ IF emergency_stop \/ ~reading_enabled
       THEN \* break
            /\ readers' = [readers EXCEPT ![t].pc = "exit"]
            /\ UNCHANGED sensors
       ELSE LET seq == NextSeq(readers[t].seq_num)
                probed == IF env.probe \in FaultSlots /\ env.probe_fails
                          THEN {env.probe} ELSE {}
            IN /\ sensors' = [i \in Slots |->
                                sensors[i] /\ i \notin probed /\ i \notin env.bad]
               /\ readers' = [readers EXCEPT ![t].seq_num = seq, ![t].sent = seq]
    /\ UNCHANGED <<reading_enabled, current_log_level, emergency_stop,
                   node_main, failures, node_reset, srv_pc,
                   ncmds, lastCmd, lastDSet, levelWriter, consec>>
    /\ UNCHANGED <<rx_vars, ctl_vars, call, status_threads, i2c, thr>>

\* finally: close the socket, reading_enabled = False; the thread ends
ReaderExit(t) ==
    /\ NodeAlive /\ readers[t].pc = "exit"
    /\ reading_enabled' = FALSE
    /\ readers' = [readers EXCEPT ![t] = IdleReader]
    /\ UNCHANGED <<sensors, current_log_level, emergency_stop, node_main,
                   failures, node_reset, srv_pc, ncmds, lastCmd,
                   lastDSet, levelWriter, consec>>
    /\ UNCHANGED <<rx_vars, ctl_vars, call, status_threads, i2c, thr>>

(***************************************************************************)
(* Node: initial state (after main() has reset the emergency flag) and     *)
(* next-state relation.                                                    *)
(***************************************************************************)
NoCmd == [frame |-> <<>>, cmd |-> <<>>, params |-> None, is_streaming |-> FALSE,
          handled |-> FALSE, success |-> FALSE, replies |-> <<>>,
          reset |-> FALSE, prev_d_frame |-> <<>>]

NodeInit ==
    /\ reading_enabled = FALSE
    /\ sensors = [i \in Slots |-> FALSE]
    /\ current_log_level = LOG_INFO
    /\ emergency_stop = FALSE
    /\ node_main = "wifi"
    /\ failures = 0
    /\ node_reset = FALSE
    /\ srv_pc = "none"
    /\ readers = [t \in ReaderIds |-> IdleReader]
    /\ ncmds = 0
    /\ lastCmd = NoCmd
    /\ lastDSet = -1
    /\ levelWriter = "init"
    /\ consec = [wifi |-> 0, sensor |-> 0]

NodeNext ==
    \/ \E ok \in BOOLEAN : NodeConnectWifi(ok)
    \/ \E c \in InitOutcomes : NodeInitSensors(c)
    \/ NodeMonitorError
    \/ NodeWifiLostReset
    \/ NodeMainObserveStop
    \/ NodeKeyboardInterrupt
    \/ SrvAccept
    \/ SrvClientClosed
    \/ SrvObserveStop
    \/ /\ srv_pc = "recv" /\ ncmds < MaxCmds
       /\ \E data \in CmdFrames : \E env \in EnvsFor(data) : NodeCommand(data, env)
    \/ \E t \in ReaderIds : ReaderStart(t)
    \/ \E t \in ReaderIds :
         /\ readers[t].pc = "loop" /\ readers[t].seq_num < MaxTick
         /\ \E env \in TickEnvs : ReaderTick(t, env)
    \/ \E t \in ReaderIds : ReaderExit(t)


(***************************************************************************)
(* Receiver: main(), safe_mode(), cleanup_resources().                     *)
(***************************************************************************)
RxAlive == ~rx_reset

\* UDPServer.__init__ and the thread that runs UDPServer.run
NoConsumer == [pc |-> "none", running |-> FALSE, last_seq |-> <<>>,
               error_count |-> 0]

NewConsumer == [pc |-> "run", running |-> TRUE, last_seq |-> <<>>,
                error_count |-> 0]

\* the objects main() creates in one pass of its loop, with their threads
NewGen == [cmd_running |-> TRUE, cmd_alive |-> TRUE, exit_requested |-> FALSE,
           tcp_running |-> TRUE, udp_server |-> FALSE, udp_socket |-> FALSE,
           consumer |-> NoConsumer,
           node_conn |-> 0, closed_conns |-> {}]

\* TCPServer.stop(): running = False; the node connection is closed and
\* forgotten under conn_lock
tcp_stop(gen) ==
    [gen EXCEPT !.tcp_running = FALSE,
                !.closed_conns = gen.closed_conns \cup ({gen.node_conn} \ {0}),
                !.node_conn = 0]

\* main's variables tcp_server, net_mgr, cmd_handler: the latest objects
Cur == Len(rx_gens)

\* UDPServer.stop(): running = False
StopConsumer(c) == [c EXCEPT !.running = FALSE]

\* cleanup_resources(tcp_server, net_mgr, cmd_handler)
cleanup_resources(gens) ==
    IF Len(gens) = 0 THEN gens
    ELSE [gens EXCEPT ![Len(gens)] =
            tcp_stop([@ EXCEPT !.consumer = IF gens[Len(gens)].udp_server
                                            THEN StopConsumer(@) ELSE @,
                               !.udp_server = FALSE,
                               !.udp_socket = FALSE])]

\* a safe_mode() that starts a command handler of its own
RxStageFailedStartsReader(stage) ==
    /\ rx_failures' = rx_failures + 1
    /\ rx_consec' = IF stage \in DOMAIN rx_consec
                    THEN [rx_consec EXCEPT ![stage] =
                              Min(max_failures, rx_consec[stage] + 1)]
                    ELSE rx_consec
    /\ IF rx_failures + 1 >= max_failures
       THEN /\ rx_main' = "safe_mode"
            /\ rx_safe' = [was_emergency |-> rx_emergency_stop,
                           old_log_level |-> rx_log_level]
            /\ rx_log_level' = LOG_DEBUG
            /\ rx_safe_cause' = stage
            /\ rx_gens' = Append(rx_gens, NewGen)
       ELSE /\ rx_main' = "ap"
            /\ UNCHANGED <<rx_safe, rx_log_level, rx_safe_cause, rx_gens>>

\* a stage failed: failures += 1; if failures >= max_failures: safe_mode()
RxStageFailed(stage) ==
    /\ rx_failures' = rx_failures + 1
    /\ rx_consec' = IF stage \in DOMAIN rx_consec
                    THEN [rx_consec EXCEPT ![stage] =
                              Min(max_failures, rx_consec[stage] + 1)]
                    ELSE rx_consec
    /\ IF rx_failures + 1 >= max_failures
       THEN \* safe_mode(): save the flag and the level, log at DEBUG
            /\ rx_main' = "safe_mode"
            /\ rx_safe' = [was_emergency |-> rx_emergency_stop,
                           old_log_level |-> rx_log_level]
            /\ rx_log_level' = LOG_DEBUG
            /\ rx_safe_cause' = stage
       ELSE /\ rx_main' = "ap"
            /\ UNCHANGED <<rx_safe, rx_log_level, rx_safe_cause>>
    /\ UNCHANGED rx_gens

\* main(): net_mgr.start_ap() returned ok
RxStartAp(ok) ==
    /\ RxAlive /\ rx_main = "ap" /\ ~rx_emergency_stop
    /\ IF ok
       THEN /\ rx_failures' = 0
            /\ rx_consec' = [rx_consec EXCEPT !["ap"] = 0]
            /\ rx_main' = "tcp"
            /\ UNCHANGED <<rx_safe, rx_log_level, rx_safe_cause, rx_gens>>
       ELSE RxStageFailed("ap")
    /\ UNCHANGED <<rx_emergency_stop, rx_reset, rx_ncmds,
                   rx_cmds_in_safe, rx_out, rx_lost, rx_seen>>
    /\ UNCHANGED <<node_vars, ctl_vars, rx_relay, call, status_threads, i2c, thr>>

\* main(): net_mgr.create_tcp_socket() returned ok; on success the TCP server,
\* the command handler and the status thread are started
RxCreateTcp(ok) ==
    /\ RxAlive /\ rx_main = "tcp"
    /\ IF ok
       THEN /\ Len(rx_gens) < MaxGen
            /\ rx_failures' = 0
            /\ rx_consec' = [rx_consec EXCEPT !["tcp"] = 0]
            /\ rx_gens' = Append(rx_gens, NewGen)
            /\ rx_main' = "running"
            /\ UNCHANGED <<rx_safe, rx_log_level, rx_safe_cause>>
       ELSE RxStageFailed("tcp")
    /\ UNCHANGED <<rx_emergency_stop, rx_reset, rx_ncmds, rx_cmds_in_safe,
                   rx_out, rx_lost, rx_seen>>
    /\ UNCHANGED <<node_vars, ctl_vars, rx_relay, call, status_threads, i2c, thr>>

\* main(): the monitoring loop finds the AP inactive and breaks: the outer
\* loop starts over with a new NetworkManager
RxApStopped ==
    /\ RxAlive /\ rx_main = "running" /\ ~rx_emergency_stop
    /\ ~rx_gens[Cur].exit_requested
    /\ rx_main' = "ap"
    /\ UNCHANGED <<rx_emergency_stop, rx_log_level, rx_failures, rx_reset,
                   rx_safe, rx_gens, rx_ncmds, rx_consec, rx_safe_cause,
                   rx_cmds_in_safe, rx_out, rx_lost, rx_seen>>
    /\ UNCHANGED <<node_vars, ctl_vars, rx_relay, call, status_threads, i2c, thr>>

\* main(): an exception escapes the monitoring loop
RxMonitorError ==
    /\ RxAlive /\ rx_main = "running" /\ ~rx_emergency_stop
    /\ ~rx_gens[Cur].exit_requested
    /\ RxStageFailed("monitor")
    /\ UNCHANGED <<rx_emergency_stop, rx_reset, rx_ncmds,
                   rx_cmds_in_safe, rx_out, rx_lost, rx_seen>>
    /\ UNCHANGED <<node_vars, ctl_vars, rx_relay, call, status_threads, i2c, thr>>

\* main(): a loop condition sees exit_requested or the emergency flag; the
\* loops end and the final cleanup_resources() runs
RxMainObserveStop ==
    /\ RxAlive
    /\ \/ rx_main = "ap" /\ rx_emergency_stop
       \/ rx_main = "running"
          /\ (rx_emergency_stop \/ rx_gens[Cur].exit_requested)
    /\ rx_gens' = cleanup_resources(rx_gens)
    /\ rx_main' = "stopped"
    /\ UNCHANGED <<rx_emergency_stop, rx_log_level, rx_failures, rx_reset,
                   rx_safe, rx_ncmds, rx_consec, rx_safe_cause,
                   rx_cmds_in_safe, rx_out, rx_lost, rx_seen>>
    /\ UNCHANGED <<node_vars, ctl_vars, rx_relay, call, status_threads, i2c, thr>>

\* KeyboardInterrupt in main(): set_emergency_stop(), cleanup_resources(),
\* then the final cleanup
RxKeyboardInterrupt ==
    /\ RxAlive /\ rx_main \in {"ap", "tcp", "running"}
    /\ rx_emergency_stop' = TRUE
    /\ rx_gens' = cleanup_resources(rx_gens)
    /\ rx_main' = "stopped"
    /\ UNCHANGED <<rx_log_level, rx_failures, rx_reset, rx_safe, rx_ncmds,
                   rx_consec, rx_safe_cause, rx_cmds_in_safe, rx_out, rx_lost,
                   rx_seen>>
    /\ UNCHANGED <<node_vars, ctl_vars, rx_relay, call, status_threads, i2c, thr>>

\* safe_mode(): KeyboardInterrupt ends the loop; finally restores the saved
\* emergency flag and log level; main() returns
safe_mode_exit(saved) ==
    [emergency_stop |-> saved.was_emergency, log_level |-> saved.old_log_level]

RxSafeModeInterrupt ==
    /\ RxAlive /\ rx_main = "safe_mode"
    /\ rx_emergency_stop' = safe_mode_exit(rx_safe).emergency_stop
    /\ rx_log_level' = safe_mode_exit(rx_safe).log_level
    /\ rx_main' = "halted"
    /\ UNCHANGED <<rx_failures, rx_reset, rx_safe, rx_gens, rx_ncmds,
                   rx_consec, rx_safe_cause, rx_cmds_in_safe, rx_out, rx_lost,
                   rx_seen>>
    /\ UNCHANGED <<node_vars, ctl_vars, rx_relay, call, status_threads, i2c, thr>>


(***************************************************************************)
(* Receiver: CommandHandler (host command lines read from stdin).          *)
(***************************************************************************)
HostLines ==
    {<<"S">>, <<"X">>, <<"N">>, <<"R">>, <<"C">>, <<"I">>, <<"Q">>, <<"D">>,
     <<"P">>, <<"Z">>, <<"q">>, <<"D", ":", "3">>, <<"D", ":", "7">>,
     <<"D", ":", "x">>, <<"P", ":", "1">>}

\* what the network does during a handler: whether send_to_node() succeeds
\* and whether create_udp_socket() succeeds
HostEnvs == [node_ok : BOOLEAN, sock_ok : BOOLEAN]

\* the receiver state a handler of command handler object o works on
RxSt(o) == [o |-> o, lvl |-> rx_log_level, es |-> rx_emergency_stop,
            reset |-> FALSE, trace |-> <<>>]

Range(f) == {f[i] : i \in DOMAIN f}

\* tcp_server.send_to_node(command_code): a command connection to the node
\* is opened and command_code is sent on it
SendToNode(command_code) == <<"send_to_node">> \o command_code

RxResult(st, success) == [st |-> st, success |-> success]

\* the body shared by stop_streaming() and the handlers that call it
StopStreamingObjects(o) ==
    [o EXCEPT !.consumer = IF o.udp_server THEN StopConsumer(@) ELSE @,
              !.udp_server = FALSE,
              !.udp_socket = FALSE]

\* a start_streaming() that tells the node to stream before it binds
rx_start_streaming_relay_first(params, st, env) ==
    IF ~st.o.udp_server
    THEN IF env.sock_ok
         THEN IF env.node_ok
              THEN RxResult([st EXCEPT !.o.udp_socket = TRUE,
                                       !.o.udp_server = TRUE,
                                       !.o.consumer = NewConsumer,
                                       !.trace = @ \o <<SendToNode(<<"S">>),
                                                       <<"create_udp_socket">>,
                                                       <<"start_udp_server">>>>],
                            TRUE)
              ELSE RxResult([st EXCEPT !.o.udp_socket = FALSE,
                                       !.trace = @ \o <<SendToNode(<<"S">>)>>],
                            FALSE)
         ELSE RxResult([st EXCEPT !.o.udp_socket = TRUE,
                                  !.trace = @ \o <<SendToNode(<<"S">>),
                                                  <<"create_udp_socket">>>>],
                       FALSE)
    ELSE RxResult(st, TRUE)

rx_start_streaming(params, st, env) ==
    IF ~st.o.udp_server
    THEN IF env.sock_ok
         THEN IF env.node_ok
              THEN RxResult([st EXCEPT !.o.udp_socket = TRUE,
                                       !.o.udp_server = TRUE,
                                       !.o.consumer = NewConsumer,
                                       !.trace = @ \o <<<<"create_udp_socket">>,
                                                       SendToNode(<<"S">>),
                                                       <<"start_udp_server">>>>],
                            TRUE)
              ELSE RxResult([st EXCEPT !.o.udp_socket = FALSE,
                                       !.trace = @ \o <<<<"create_udp_socket">>,
                                                       SendToNode(<<"S">>),
                                                       <<"close_udp_socket">>>>],
                            FALSE)
         ELSE \* bind() raised: the socket object stays in udp_socket
              RxResult([st EXCEPT !.o.udp_socket = TRUE,
                                  !.trace = @ \o <<<<"create_udp_socket">>>>],
                       FALSE)
    ELSE RxResult(st, TRUE)

\* stop_streaming(): the node is told first, then the consumer is stopped
stop_streaming_body(st) ==
    [st EXCEPT !.o = StopStreamingObjects(@),
               !.trace = @ \o <<SendToNode(<<"X">>)>>]

rx_stop_streaming(params, st, env) == RxResult(stop_streaming_body(st), TRUE)

rx_restart_node(params, st, env) ==
    LET st1 == [st EXCEPT !.trace = @ \o <<SendToNode(<<"N">>)>>]
    IN IF env.node_ok
       THEN RxResult([st1 EXCEPT !.o = IF @.udp_server THEN StopStreamingObjects(@)
                                       ELSE @], TRUE)
       ELSE RxResult(st1, FALSE)

restart_receiver(params, st, env) ==
    RxResult([stop_streaming_body(st) EXCEPT !.o.tcp_running = FALSE,
                                             !.reset = TRUE], TRUE)

\* check_sensors, reinitialize_sensors: up to 3 attempts until one succeeds
relay_retry(code, params, st, env) ==
    RxResult([st EXCEPT !.trace = @ \o (IF env.node_ok
                                        THEN <<SendToNode(code)>>
                                        ELSE <<SendToNode(code), SendToNode(code),
                                               SendToNode(code)>>)],
             env.node_ok)

ping_node(params, st, env) ==
    RxResult([st EXCEPT !.trace = @ \o <<SendToNode(<<"P">>)>>], env.node_ok)

quit_receiver(params, st, env) ==
    RxResult([stop_streaming_body(st) EXCEPT
                  !.o = [tcp_stop(@) EXCEPT !.exit_requested = TRUE,
                                            !.cmd_running = FALSE],
                  !.es = TRUE], TRUE)

\* a set_debug_mode() that keeps the level to the receiver
rx_set_debug_mode_local(params, st, env) ==
    IF params # None /\ Len(params) > 0
    THEN LET param_clean == Strip(params)
             isdigit == param_clean # <<>>
                        /\ \A i \in 1..Len(param_clean) : IsDigit(param_clean[i])
             level == DigitsValue(param_clean)
         IN IF ~isdigit THEN RxResult(st, FALSE)
            ELSE IF level <= 3
            THEN RxResult([st EXCEPT !.lvl = level], TRUE)
            ELSE RxResult(st, FALSE)
    ELSE RxResult(st, TRUE)

rx_set_debug_mode(params, st, env) ==
    IF params # None /\ Len(params) > 0
    THEN LET param_clean == Strip(params)
             isdigit == param_clean # <<>>
                        /\ \A i \in 1..Len(param_clean) : IsDigit(param_clean[i])
             level == DigitsValue(param_clean)
         IN IF ~isdigit THEN RxResult(st, FALSE)
            ELSE IF level <= 3
            THEN RxResult([st EXCEPT !.lvl = level,
                                     !.trace = @ \o <<SendToNode(<<"D", ":">>
                                                        \o FormatNat(level))>>],
                          TRUE)
            ELSE RxResult(st, FALSE)
    ELSE RxResult(st, TRUE)

\* the keys of CommandHandler.commands
HostCodes == {<<"S">>, <<"X">>, <<"N">>, <<"R">>, <<"C">>, <<"I">>, <<"Q">>,
              <<"D">>, <<"P">>}

\* CommandHandler.process_command(cmd), cmd = buffer.strip().upper()
process_command(line, st, env) ==
    LET pc == ParseCommand(Upper(Strip(line)))
        cmd_code == pc.cmd
    IN IF cmd_code \notin HostCodes THEN RxResult(st, FALSE)
       ELSE CASE cmd_code = <<"S">> -> rx_start_streaming(pc.params, st, env)
              [] cmd_code = <<"X">> -> rx_stop_streaming(pc.params, st, env)
              [] cmd_code = <<"N">> -> rx_restart_node(pc.params, st, env)
              [] cmd_code = <<"R">> -> restart_receiver(pc.params, st, env)
              [] cmd_code = <<"Q">> -> quit_receiver(pc.params, st, env)
              [] cmd_code = <<"D">> -> rx_set_debug_mode(pc.params, st, env)
              [] cmd_code = <<"P">> -> ping_node(pc.params, st, env)
              [] OTHER -> relay_retry(cmd_code, pc.params, st, env)

\* CommandHandler.run of generation g reads one line and processes it
RxHostCommand(g, line, env) ==
    /\ RxAlive /\ g \in 1..Len(rx_gens) /\ rx_gens[g].cmd_alive
    /\ rx_ncmds < MaxHostCmds
    /\ \E r \in {process_command(line, RxSt(rx_gens[g]), env)} :
         \* one UDPServer thread per CommandHandler at a time in this model
         /\ (r.st.o.consumer.pc = "run" /\ r.st.o.consumer.running
             /\ ~rx_gens[g].udp_server) => rx_gens[g].consumer.pc # "run"
         /\ rx_gens' = [rx_gens EXCEPT ![g] = r.st.o]
         /\ rx_log_level' = r.st.lvl
         /\ rx_emergency_stop' = r.st.es
         /\ rx_reset' = r.st.reset
         \* the outcomes of create_udp_socket() and of the relay are kept
         \* for the handler that binds, start_streaming()
         /\ rx_relay' = [line |-> line, gen |-> g, trace |-> r.st.trace,
                         udp_server |-> rx_gens[g].udp_server,
                         node_ok |-> env.node_ok
                                     /\ <<"create_udp_socket">> \in Range(r.st.trace),
                         sock_ok |-> env.sock_ok
                                     /\ <<"create_udp_socket">> \in Range(r.st.trace)]
    /\ rx_ncmds' = rx_ncmds + 1
    /\ rx_cmds_in_safe' = IF rx_main = "safe_mode" THEN rx_cmds_in_safe + 1
                          ELSE rx_cmds_in_safe
    /\ UNCHANGED <<rx_main, rx_failures, rx_safe, rx_consec, rx_safe_cause,
                   rx_out, rx_lost, rx_seen>>
    /\ UNCHANGED <<node_vars, ctl_vars, call, status_threads, i2c, thr>>

\* CommandHandler.run: the loop condition (self.running and not emergency
\* stop) fails and the thread ends
RxCmdObserveStop(g) ==
    /\ RxAlive /\ g \in 1..Len(rx_gens) /\ rx_gens[g].cmd_alive
    /\ (~rx_gens[g].cmd_running \/ rx_emergency_stop)
    /\ rx_gens' = [rx_gens EXCEPT ![g].cmd_alive = FALSE]
    /\ UNCHANGED <<rx_emergency_stop, rx_log_level, rx_main, rx_failures,
                   rx_reset, rx_safe, rx_ncmds, rx_consec, rx_safe_cause,
                   rx_cmds_in_safe, rx_out, rx_lost, rx_seen>>
    /\ UNCHANGED <<node_vars, ctl_vars, rx_relay, call, status_threads, i2c, thr>>

(***************************************************************************)
(* Receiver: UDPServer.run (the streaming consumer).                       *)
(***************************************************************************)
\* sequence numbers the datagrams of the model carry
SeqSamples ==
    (0 .. MaxSeqStep) \cup {40, 41}
      \cup ((LossSanityBound - 1) .. (LossSanityBound - 1 + MaxSeqStep))
      \cup ((SeqModulus - MaxSeqStep) .. (SeqModulus - 1))

Chars(n) == FormatNat(n)

SensorPart == <<"S", "0", ":", "[", "w", ",", "x", ",", "y", ",", "z", "]">>

\* "SEQ:<n>," followed by the sensor part
StreamFrame(n) == <<"S", "E", "Q", ":">> \o Chars(n) \o <<",">> \o SensorPart

MalformedFrames ==
    {SensorPart,                                     \* no SEQ: prefix
     <<"S", "E", "Q", ":", "4", "1">>,               \* no second field
     <<"S", "E", "Q", ":", "x">> \o <<",">> \o SensorPart,   \* not an integer
     <<"S", "E", "Q", ":">> \o <<",">> \o SensorPart}        \* empty number

UdpFrames == {StreamFrame(n) : n \in SeqSamples} \cup MalformedFrames

\* a parse that takes a sequence field that is not a number as 0
ParseFrameLenient(data_str) ==
    IF ~StartsWith(data_str, <<"S", "E", "Q", ":">>) THEN [ok |-> FALSE, seq |-> 0]
    ELSE LET parts == Split(data_str, ",")
         IN IF Len(parts) < 2 THEN [ok |-> FALSE, seq |-> 0]
            ELSE [ok |-> TRUE, seq |-> 0]

\* the parse of one datagram: ok and the sequence number, or the ValueError
ParseFrame(data_str) ==
    IF ~StartsWith(data_str, <<"S", "E", "Q", ":">>) THEN [ok |-> FALSE, seq |-> 0]
    ELSE LET parts == Split(data_str, ",")
         IN IF Len(parts) < 2 THEN [ok |-> FALSE, seq |-> 0]
            ELSE LET fields == Split(parts[1], ":")
                 IN IF Len(fields) < 2 THEN [ok |-> FALSE, seq |-> 0]
                    ELSE [ok |-> ParseInt(fields[2]).ok,
                          seq |-> ParseInt(fields[2]).val]

\* a loss computation whose sanity bound admits the bound itself
LossReportInclusive(last_seq, seq) ==
    IF last_seq = <<>> THEN <<>>
    ELSE LET lost == (seq - ((last_seq[1] + 1) % SeqModulus)) % SeqModulus
         IN IF lost > 0 /\ lost <= LossSanityBound THEN <<lost>> ELSE <<>>

\* the loss the consumer logs for sequence seq after last_seq (<<>> when
\* last_seq is None): <<lost>>, or <<>> when it logs nothing
LossReport(last_seq, seq) ==
    IF last_seq = <<>> THEN <<>>
    ELSE LET expected_seq == (last_seq[1] + 1) % SeqModulus
         IN IF seq # expected_seq
            THEN LET lost == (seq - expected_seq) % SeqModulus
                 IN IF lost > 0 /\ lost < LossSanityBound THEN <<lost>>
                    ELSE <<>>
            ELSE <<>>

\* log(message, level): the message reaches the host unless level is below
\* the current log level
Logged(message, level, lvl) == IF level < lvl THEN <<>> ELSE message

\* how the datagram was read: recvfrom_into() gives a memoryview, which has
\* no decode(); the fallback recvfrom() gives bytes
RecvPaths == {"recvfrom_into", "recvfrom"}

\* a consumer that relays what it received without formatting it
udp_receive_raw(c, data, path, lvl) ==
    [consumer |-> [c EXCEPT !.error_count = 0,
                            !.last_seq = IF path = "recvfrom" /\ ParseFrame(data).ok
                                         THEN <<ParseFrame(data).seq>> ELSE @],
     lost |-> <<>>,
     out |-> <<"DATA:">> \o data]

\* one datagram received and processed under log level lvl
udp_receive(c, data, path, lvl) ==
    LET p == ParseFrame(data)
    IN IF path = "recvfrom" /\ p.ok
       THEN [consumer |-> [c EXCEPT !.error_count = 0, !.last_seq = <<p.seq>>],
             lost |-> Logged(LossReport(c.last_seq, p.seq), LOG_WARNING, lvl),
             out |-> <<"DATA:">> \o <<"QUAT_DATA: ">> \o data]
       ELSE [consumer |-> [c EXCEPT !.error_count = 0],
             lost |-> <<>>,
             out |-> <<"DATA:">> \o data]

RxUdpReceive(g, data, path) ==
    /\ RxAlive /\ g \in 1..Len(rx_gens)
    /\ rx_gens[g].consumer.pc = "run" /\ rx_gens[g].consumer.running
    /\ ~rx_emergency_stop /\ rx_gens[g].udp_socket
    /\ \E r \in {udp_receive(rx_gens[g].consumer, data, path, rx_log_level)} :
         /\ rx_gens' = [rx_gens EXCEPT ![g].consumer = r.consumer]
         /\ rx_lost' = r.lost
         /\ rx_out' = r.out
    /\ rx_seen' = [prev |-> rx_gens[g].consumer.last_seq, frame |-> data,
                   path |-> path, lvl |-> rx_log_level]
    /\ UNCHANGED <<rx_emergency_stop, rx_log_level, rx_main, rx_failures,
                   rx_reset, rx_safe, rx_ncmds, rx_consec, rx_safe_cause,
                   rx_cmds_in_safe>>
    /\ UNCHANGED <<node_vars, ctl_vars, rx_relay, call, status_threads, i2c, thr>>

\* recvfrom raised something other than would-block or timeout
RxUdpError(g) ==
    /\ RxAlive /\ g \in 1..Len(rx_gens)
    /\ rx_gens[g].consumer.pc = "run" /\ rx_gens[g].consumer.running
    /\ ~rx_emergency_stop
    /\ rx_gens' = [rx_gens EXCEPT ![g].consumer =
                     [@ EXCEPT !.error_count = @ + 1,
                               !.pc = IF rx_gens[g].consumer.error_count + 1
                                         > max_errors
                                      THEN "done" ELSE "run"]]
    /\ UNCHANGED <<rx_emergency_stop, rx_log_level, rx_main, rx_failures,
                   rx_reset, rx_safe, rx_ncmds, rx_consec, rx_safe_cause,
                   rx_cmds_in_safe, rx_out, rx_lost, rx_seen>>
    /\ UNCHANGED <<node_vars, ctl_vars, rx_relay, call, status_threads, i2c, thr>>

\* the loop condition (self.running and not emergency stop) fails
RxUdpObserveStop(g) ==
    /\ RxAlive /\ g \in 1..Len(rx_gens)
    /\ rx_gens[g].consumer.pc = "run"
    /\ (~rx_gens[g].consumer.running \/ rx_emergency_stop)
    /\ rx_gens' = [rx_gens EXCEPT ![g].consumer.pc = "done"]
    /\ UNCHANGED <<rx_emergency_stop, rx_log_level, rx_main, rx_failures,
                   rx_reset, rx_safe, rx_ncmds, rx_consec, rx_safe_cause,
                   rx_cmds_in_safe, rx_out, rx_lost, rx_seen>>
    /\ UNCHANGED <<node_vars, ctl_vars, rx_relay, call, status_threads, i2c, thr>>

(***************************************************************************)
(* Control channel, node side: receiver_connection_thread and log().       *)
(***************************************************************************)
NoSock == [st |-> "none", connected |-> FALSE, hello |-> 0, hb |-> FALSE,
           hb_first |-> FALSE]

\* "NODE_CONNECTED:v1.0"
HelloFrame == <<"NODE_CONNECTED", ":", "v1.0">>

\* f"HEARTBEAT:{active_sensors}/8:{gc.mem_free()}"
HeartbeatFrame(active) ==
    <<"HEARTBEAT", ":">> \o FormatNat(active) \o <<"/8", ":", "mem_free">>

\* "LOG:" + formatted
LogFrame == <<"LOG:", "[NODE] ", "text">>

\* a send on socket k returns without an exception only if the socket is
\* open and its buffer has room
CanSend(sk, w, k) == k # 0 /\ sk[k].st = "open" /\ Len(w[k]) < MaxWire

\* the receiver closed its end of connection k: what is sent is discarded
PeerClosed(k) ==
    \/ handlers[k].pc = "done"
    \/ handlers[k].pc # "none" /\ k \in rx_gens[handlers[k].gen].closed_conns

\* the bytes of frame reach the receiver's socket buffer of connection k
Deliver(w, k, frame) ==
    IF PeerClosed(k) THEN w ELSE [w EXCEPT ![k] = Append(@, frame)]

\* no handler has measured anything on the connection
NoClock == [idle |-> 0, quiet |-> 0, timed_out |-> FALSE]

\* a frame that reaches the receiver's buffer of a connection ends the
\* connection's quiet time
Arrivals ==
    hb_clock' = [k \in SockIds |->
                   IF Len(wire'[k]) > Len(wire[k])
                   THEN [hb_clock[k] EXCEPT !.quiet = 0]
                   ELSE hb_clock[k]]

\* log(message, level): the frame goes to receiver_tcp under tcp_lock; an
\* exception of send() is swallowed
node_log(w, sk, rt, level) ==
    IF level >= current_log_level /\ CanSend(sk, w, rt)
    THEN Deliver(w, rt, LogFrame)
    ELSE w

\* the next socket object the node creates
FreeSock == CHOOSE k \in SockIds :
                /\ socks[k].st = "none"
                /\ \A j \in SockIds : socks[j].st = "none" => k <= j

\* TCPServer.run() is accepting
RxListening ==
    /\ RxAlive /\ rx_main = "running"
    /\ Len(rx_gens) > 0 /\ rx_gens[Len(rx_gens)].tcp_running

\* a replacement of receiver_tcp that leaves the previous socket open
store_connection_noclose(rt, sk, k) == [receiver_tcp |-> k, socks |-> sk]

\* with tcp_lock: close the existing connection if any, then store the new
store_connection(rt, sk, k) ==
    [receiver_tcp |-> k,
     socks |-> IF rt # 0 THEN [sk EXCEPT ![rt].st = "closed"] ELSE sk]

\* socket(), settimeout(5), connect(): ok tells whether connect() returned
ConnConnect(t, ok) ==
    /\ NodeAlive /\ conn_threads[t].pc = "connect" /\ ~emergency_stop
    /\ \E k \in SockIds : socks[k].st = "none"
    /\ ok => RxListening
    /\ LET k == FreeSock
       IN /\ socks' = [socks EXCEPT ![k].st = IF ok THEN "open" ELSE "new",
                                    ![k].connected = ok]
          /\ conn_threads' = [conn_threads EXCEPT
                                 ![t].sock = k,
                                 ![t].pc = IF ok THEN "store" ELSE "failed"]
          /\ wire' = IF ok THEN node_log(wire, socks, receiver_tcp, LOG_INFO)
                     ELSE wire
    /\ UNCHANGED <<receiver_tcp, handlers, last_heartbeat, ctl_store, ctl_recv>>
    /\ Arrivals
    /\ UNCHANGED <<node_vars, rx_vars, call, status_threads, i2c, thr>>

\* with tcp_lock: the stored handle is replaced
ConnStore(t) ==
    /\ NodeAlive /\ conn_threads[t].pc = "store"
    /\ LET k == conn_threads[t].sock
           r == store_connection(receiver_tcp, socks, k)
       IN /\ receiver_tcp' = r.receiver_tcp
          /\ socks' = r.socks
          /\ ctl_store' = [prev |-> receiver_tcp, new |-> k]
    /\ conn_threads' = [conn_threads EXCEPT ![t].pc = "hello"]
    /\ UNCHANGED <<handlers, wire, last_heartbeat, ctl_recv, hb_clock>>
    /\ UNCHANGED <<node_vars, rx_vars, call, status_threads, i2c, thr>>

\* a thread that announces itself twice
ConnHelloTwice(t, ok) ==
    /\ NodeAlive /\ conn_threads[t].pc = "hello"
    /\ ok => CanSend(socks, wire, conn_threads[t].sock)
    /\ LET k == conn_threads[t].sock
       IN IF ok
          THEN /\ socks' = [socks EXCEPT ![k].hello = 2]
               /\ wire' = Deliver(wire, k, HelloFrame)
               /\ conn_threads' = [conn_threads EXCEPT ![t].pc = "loop"]
          ELSE /\ conn_threads' = [conn_threads EXCEPT ![t].pc = "failed"]
               /\ UNCHANGED <<socks, wire>>
    /\ UNCHANGED <<receiver_tcp, handlers, last_heartbeat, ctl_store, ctl_recv>>
    /\ Arrivals
    /\ UNCHANGED <<node_vars, rx_vars, call, status_threads, i2c, thr>>

\* client_sock.send("NODE_CONNECTED:v1.0"): an exception leads to the
\* handler of the outer try
ConnHello(t, ok) ==
    /\ NodeAlive /\ conn_threads[t].pc = "hello"
    /\ ok => CanSend(socks, wire, conn_threads[t].sock)
    /\ LET k == conn_threads[t].sock
       IN IF ok
          THEN /\ socks' = [socks EXCEPT ![k].hello = @ + 1]
               /\ wire' = Deliver(wire, k, HelloFrame)
               /\ conn_threads' = [conn_threads EXCEPT ![t].pc = "loop"]
          ELSE /\ conn_threads' = [conn_threads EXCEPT ![t].pc = "failed"]
               /\ UNCHANGED <<socks, wire>>
    /\ UNCHANGED <<receiver_tcp, handlers, last_heartbeat, ctl_store, ctl_recv>>
    /\ Arrivals
    /\ UNCHANGED <<node_vars, rx_vars, call, status_threads, i2c, thr>>

\* the heartbeat interval has passed: send the heartbeat and log it; an
\* exception is logged and breaks the inner loop, and the outer loop starts
\* its next pass at once
ConnHeartbeat(t, ok) ==
    /\ NodeAlive /\ conn_threads[t].pc = "loop" /\ ~emergency_stop
    /\ ok => CanSend(socks, wire, conn_threads[t].sock)
    /\ LET k == conn_threads[t].sock
           active == Cardinality({i \in Slots : sensors[i]})
       IN IF ok
          THEN /\ socks' = [socks EXCEPT ![k].hb = TRUE,
                                         ![k].hb_first = @ \/ socks[k].hello = 0]
               /\ wire' = node_log(Deliver(wire, k, HeartbeatFrame(active)),
                                   socks, receiver_tcp, LOG_DEBUG)
               /\ UNCHANGED conn_threads
          ELSE /\ wire' = node_log(wire, socks, receiver_tcp, LOG_ERROR)
               /\ conn_threads' = [conn_threads EXCEPT ![t].pc = "connect",
                                                       ![t].lost_by = "send",
                                                       ![t].waited = FALSE]
               /\ UNCHANGED socks
    /\ UNCHANGED <<receiver_tcp, handlers, last_heartbeat, ctl_store, ctl_recv>>
    /\ Arrivals
    /\ UNCHANGED <<node_vars, rx_vars, call, status_threads, i2c, thr>>

\* except Exception of the outer try: log, forget the handle if it is this
\* socket, close the socket
ConnCleanup(t) ==
    /\ NodeAlive /\ conn_threads[t].pc = "failed"
    /\ LET k == conn_threads[t].sock
       IN /\ wire' = node_log(wire, socks, receiver_tcp, LOG_WARNING)
          /\ receiver_tcp' = IF receiver_tcp = k THEN 0 ELSE receiver_tcp
          /\ socks' = [socks EXCEPT ![k].st = "closed"]
    /\ conn_threads' = [conn_threads EXCEPT ![t].pc = "backoff",
                                            ![t].lost_by = "error",
                                            ![t].waited = FALSE]
    /\ UNCHANGED <<handlers, last_heartbeat, ctl_store, ctl_recv>>
    /\ Arrivals
    /\ UNCHANGED <<node_vars, rx_vars, call, status_threads, i2c, thr>>

\* the wait loop ran for reconnect_interval, or ended early on the
\* emergency flag, which also ends the outer loop
ConnBackoff(t) ==
    /\ NodeAlive /\ conn_threads[t].pc = "backoff"
    /\ conn_threads' = IF emergency_stop
                       THEN [conn_threads EXCEPT ![t].pc = "done"]
                       ELSE [conn_threads EXCEPT ![t].pc = "connect",
                                                 ![t].waited = TRUE]
    /\ UNCHANGED <<receiver_tcp, socks, handlers, wire, last_heartbeat,
                   ctl_store, ctl_recv, hb_clock>>
    /\ UNCHANGED <<node_vars, rx_vars, call, status_threads, i2c, thr>>

\* while not check_emergency_stop(), of the outer or the inner loop
ConnObserveStop(t) ==
    /\ NodeAlive /\ conn_threads[t].pc \in {"connect", "loop"}
    /\ emergency_stop
    /\ conn_threads' = [conn_threads EXCEPT ![t].pc = "done"]
    /\ UNCHANGED <<receiver_tcp, socks, handlers, wire, last_heartbeat,
                   ctl_store, ctl_recv, hb_clock>>
    /\ UNCHANGED <<node_vars, rx_vars, call, status_threads, i2c, thr>>

\* log() called by another thread of the node
NodeLog ==
    /\ NodeAlive /\ LOG_INFO >= current_log_level
    /\ CanSend(socks, wire, receiver_tcp)
    /\ wire' = node_log(wire, socks, receiver_tcp, LOG_INFO)
    /\ UNCHANGED <<receiver_tcp, socks, conn_threads, handlers, last_heartbeat,
                   ctl_store, ctl_recv>>
    /\ Arrivals
    /\ UNCHANGED <<node_vars, rx_vars, call, status_threads, i2c, thr>>

(***************************************************************************)
(* Control channel, receiver side: TCPServer.run and handle_client.        *)
(***************************************************************************)
NoHandler == [pc |-> "none", gen |-> 0]

RECURSIVE Concat(_)
Concat(frames) ==
    IF frames = <<>> THEN <<>> ELSE Head(frames) \o Concat(Tail(frames))

\* handle_client: what is done with the bytes of one recv()
classify(data) ==
    LET message == Strip(data)
    IN IF StartsWith(message, <<"HEARTBEAT">>)
       THEN [kind |-> "heartbeat", host |-> <<>>]
       ELSE IF StartsWith(message, <<"LOG:">>)
       THEN [kind |-> "log",
             host |-> <<"LOG:">> \o SubSeq(message, 2, Len(message)) \o <<"\n">>]
       ELSE IF StartsWith(message, <<"NODE_CONNECTED">>)
       THEN [kind |-> "hello", host |-> <<>>]
       ELSE [kind |-> "response",
             host |-> <<"LOG:[NODE] Command response: ">> \o message \o <<"\n">>]

\* TCPServer.run: accept() returns connection i and a handle_client thread
\* is started for it
RxTcpAccept(i) ==
    /\ RxListening /\ ~rx_emergency_stop
    /\ socks[i].connected /\ handlers[i].pc = "none"
    /\ handlers' = [handlers EXCEPT ![i] = [pc |-> "store", gen |-> Len(rx_gens)]]
    /\ UNCHANGED <<receiver_tcp, socks, conn_threads, wire, last_heartbeat,
                   ctl_store, ctl_recv, hb_clock>>
    /\ UNCHANGED <<node_vars, rx_vars, call, status_threads, i2c, thr>>

\* with conn_lock: close the existing connection if any, then store the new
handler_store(gen, i) ==
    [gen EXCEPT !.closed_conns = gen.closed_conns \cup ({gen.node_conn} \ {0}),
                !.node_conn = i]

RxHandlerStore(i) ==
    /\ RxAlive /\ handlers[i].pc = "store"
    /\ rx_gens' = [rx_gens EXCEPT ![handlers[i].gen] = handler_store(@, i)]
    /\ handlers' = [handlers EXCEPT ![i].pc = "serve"]
    \* what the closed socket had not delivered is gone
    /\ wire' = [k \in SockIds |->
                  IF k = rx_gens[handlers[i].gen].node_conn THEN <<>> ELSE wire[k]]
    /\ UNCHANGED <<rx_emergency_stop, rx_log_level, rx_main, rx_failures,
                   rx_reset, rx_safe, rx_ncmds, rx_consec, rx_safe_cause,
                   rx_cmds_in_safe, rx_out, rx_lost, rx_seen, rx_relay>>
    /\ hb_clock' = [hb_clock EXCEPT ![i] = NoClock]
    /\ UNCHANGED <<receiver_tcp, socks, conn_threads, last_heartbeat,
                   ctl_store, ctl_recv>>
    /\ UNCHANGED <<node_vars, call, status_threads, i2c, thr>>

\* handler i is in its loop on a socket nobody closed
Serving(i) ==
    /\ handlers[i].pc = "serve"
    /\ i \notin rx_gens[handlers[i].gen].closed_conns

\* a handler whose inactivity timer is restarted by heartbeats only
last_activity_heartbeat_only(c, idle) == IF c.kind = "heartbeat" THEN 0 ELSE idle

\* last_activity = time.ticks_ms(), after every recv() that returned data
\* and before the message is classified
last_activity(c, idle) == 0

\* recv(1024) returns the first n frames the node sent, as one string
RxHandlerRecv(i, n) ==
    /\ RxAlive /\ Serving(i)
    /\ rx_gens[handlers[i].gen].tcp_running /\ ~rx_emergency_stop
    /\ n \in 1 .. Len(wire[i])
    /\ LET frames == SubSeq(wire[i], 1, n)
           c == classify(Concat(frames))
       IN /\ ctl_recv' = [frames |-> frames, kind |-> c.kind, host |-> c.host]
          /\ last_heartbeat' = IF c.kind = "heartbeat" THEN i ELSE last_heartbeat
          /\ hb_clock' = [hb_clock EXCEPT ![i].idle = last_activity(c, @)]
    /\ wire' = [wire EXCEPT ![i] = SubSeq(@, n + 1, Len(@))]
    /\ UNCHANGED <<receiver_tcp, socks, conn_threads, handlers, ctl_store>>
    /\ UNCHANGED <<node_vars, rx_vars, call, status_threads, i2c, thr>>

\* finally: forget the handle if it is this socket, close the socket
handler_close(gen, i) ==
    [gen EXCEPT !.node_conn = IF gen.node_conn = i THEN 0 ELSE gen.node_conn,
                !.closed_conns = gen.closed_conns \cup {i}]

\* the loop is left: recv() returned no data (the node closed), nothing
\* arrived for HEARTBEAT_TIMEOUT, or the server was told to stop
RxHandlerLeave(i) ==
    /\ RxAlive /\ Serving(i)
    /\ \/ wire[i] = <<>>
       \/ ~rx_gens[handlers[i].gen].tcp_running
       \/ rx_emergency_stop
    /\ rx_gens' = [rx_gens EXCEPT ![handlers[i].gen] = handler_close(@, i)]
    /\ handlers' = [handlers EXCEPT ![i].pc = "done"]
    /\ wire' = [wire EXCEPT ![i] = <<>>]
    /\ hb_clock' = [hb_clock EXCEPT ![i] = NoClock]
    /\ UNCHANGED <<rx_emergency_stop, rx_log_level, rx_main, rx_failures,
                   rx_reset, rx_safe, rx_ncmds, rx_consec, rx_safe_cause,
                   rx_cmds_in_safe, rx_out, rx_lost, rx_seen, rx_relay>>
    /\ UNCHANGED <<receiver_tcp, socks, conn_threads, last_heartbeat,
                   ctl_store, ctl_recv>>
    /\ UNCHANGED <<node_vars, call, status_threads, i2c, thr>>

\* select() found nothing to read and ticks_diff(now, last_activity) is
\* more than HEARTBEAT_TIMEOUT * 1000: break, then the finally block
RxHandlerTimeout(i) ==
    /\ RxAlive /\ Serving(i)
    /\ rx_gens[handlers[i].gen].tcp_running /\ ~rx_emergency_stop
    /\ wire[i] = <<>>
    /\ hb_clock[i].idle > HEARTBEAT_TIMEOUT
    /\ rx_gens' = [rx_gens EXCEPT ![handlers[i].gen] = handler_close(@, i)]
    /\ handlers' = [handlers EXCEPT ![i].pc = "done"]
    /\ hb_clock' = [hb_clock EXCEPT ![i] = [NoClock EXCEPT !.timed_out = TRUE]]
    /\ UNCHANGED <<rx_emergency_stop, rx_log_level, rx_main, rx_failures,
                   rx_reset, rx_safe, rx_ncmds, rx_consec, rx_safe_cause,
                   rx_cmds_in_safe, rx_out, rx_lost, rx_seen, rx_relay>>
    /\ UNCHANGED <<receiver_tcp, socks, conn_threads, wire, last_heartbeat,
                   ctl_store, ctl_recv>>
    /\ UNCHANGED <<node_vars, call, status_threads, i2c, thr>>

\* TickSeconds pass on the receiver's clock while its handlers wait in
\* select(); what is past the timeout is not told apart
HbTick ==
    /\ RxAlive
    /\ \E i \in SockIds :
         /\ Serving(i)
         /\ \/ hb_clock[i].idle <= HEARTBEAT_TIMEOUT
            \/ hb_clock[i].quiet <= HEARTBEAT_TIMEOUT
    /\ hb_clock' = [i \in SockIds |->
                      IF Serving(i)
                      THEN [hb_clock[i] EXCEPT
                              !.idle = Min(@ + TickSeconds, HEARTBEAT_TIMEOUT + 1),
                              !.quiet = Min(@ + TickSeconds, HEARTBEAT_TIMEOUT + 1)]
                      ELSE hb_clock[i]]
    /\ UNCHANGED <<receiver_tcp, socks, conn_threads, handlers, wire,
                   last_heartbeat, ctl_store, ctl_recv>>
    /\ UNCHANGED <<node_vars, rx_vars, call, status_threads, i2c, thr>>

(***************************************************************************)
(* Node: the sensor bus. select_sensor, init_sensors, check_sensor_status, *)
(* and the health check and the read pass of sensor_reading_thread, with   *)
(* what they write to the multiplexer.                                     *)
(***************************************************************************)
\* what i2c.writeto does during one operation: it works, it raises once and
\* then works, or it raises every time
MuxOutcomes == {"ok", "retry_ok", "fails"}

\* select_sensor(channel): the payloads handed to i2c.writeto, in order, and
\* the returned flag; the retry builds its payload again
select_sensor(channel, mux) ==
    LET data == 2 ^ channel
    IN CASE mux = "ok" -> [writes |-> <<data>>, ok |-> TRUE]
         [] mux = "retry_ok" -> [writes |-> <<data, 2 ^ channel>>, ok |-> TRUE]
         [] OTHER -> [writes |-> <<data, 2 ^ channel>>, ok |-> FALSE]

\* a channel selection that is handed the sensor index
Selected_by_index(idx, channel, mux) ==
    LET w == select_sensor(idx, mux).writes
    IN [j \in 1 .. Len(w) |-> [idx |-> idx, data |-> w[j]]]

\* the writes of one channel selection, with the sensor they were made for
Selected(idx, channel, mux) ==
    LET w == select_sensor(channel, mux).writes
    IN [j \in 1 .. Len(w) |-> [idx |-> idx, data |-> w[j]]]

\* the concatenation of f[0], ..., f[n - 1]
RECURSIVE Flat(_, _)
Flat(f, n) == IF n = 0 THEN <<>> ELSE Flat(f, n - 1) \o f[n - 1]

\* BNO055(i2c, address=addr) of a slot: the retry at which it first returns,
\* -1 if it raises each of the init_retries times
SlotOutcomes == -1 .. (init_retries - 1)

\* the hardware during init_sensors: one behaviour of the bus, the slots
\* outside FaultSlots alike (constructed at the first attempt, or never)
InitHw ==
    {[mux |-> m, slot |-> [i \in Slots |-> IF i \in FaultSlots THEN f[i] ELSE b]] :
        m \in MuxOutcomes, b \in {-1, 0}, f \in [FaultSlots -> SlotOutcomes]}

\* the for loop of init_sensors over idx = 0 .. n - 1: success_count
RECURSIVE success_count(_, _)
success_count(hw, n) ==
    IF n = 0 THEN 0
    ELSE success_count(hw, n - 1)
         + (IF select_sensor((n - 1) \div 2, hw.mux).ok /\ hw.slot[n - 1] >= 0
            THEN 1 ELSE 0)

\* an init_sensors that tries the recovery whenever a sensor is missing
init_sensors_hw_eager(hw) ==
    LET count == success_count(hw, NumSensors)
    IN [sensors |-> [i \in Slots |->
                       select_sensor(i \div 2, hw.mux).ok /\ hw.slot[i] >= 0],
        mux |-> <<>>,
        success_count |-> count,
        recovery |-> count < NumSensors,
        success |-> count > 0]

\* init_sensors() on the given hardware: the array, the channel selections,
\* whether emergency_i2c_recovery() ran and the returned flag
init_sensors_hw(hw) ==
    LET count == success_count(hw, NumSensors)
        sel(i) == Selected(i, i \div 2, hw.mux)
        \* retry == 1 failed: reset_multiplexer(), select_sensor(channel)
        again(i) == IF hw.slot[i] = -1 \/ hw.slot[i] >= 2 THEN sel(i) ELSE <<>>
    IN [sensors |-> [i \in Slots |->
                       select_sensor(i \div 2, hw.mux).ok /\ hw.slot[i] >= 0],
        mux |-> Flat([i \in Slots |->
                        IF select_sensor(i \div 2, hw.mux).ok
                        THEN sel(i) \o again(i) ELSE sel(i)], NumSensors),
        success_count |-> count,
        recovery |-> count = 0,
        success |-> count > 0]

\* the hardware during check_sensor_status: the bus, and the slots whose
\* cal_status() raises
CheckHw == [mux : MuxOutcomes, bad : SUBSET FaultSlots]

\* check_sensor_status() on the given hardware
check_sensor_status_hw(sens, hw) ==
    [sensors |-> [i \in Slots |->
                    sens[i] /\ ~(select_sensor(i \div 2, hw.mux).ok /\ i \in hw.bad)],
     mux |-> Flat([i \in Slots |->
                     IF sens[i] THEN Selected(i, i \div 2, hw.mux) ELSE <<>>],
                  NumSensors)]

\* what sensor.quaternion() does for a slot: four values, an exception, or
\* a tuple of another length
ReadOutcomes == {"ok", "raises", "short"}

\* the hardware during one pass of the read loop: the slot the health check
\* probes (-1: no check due), whether the probe raises, the bus, and
\* quaternion() of each slot
ReadHw ==
    {[probe |-> pp[1], probe_fails |-> pp[2], mux |-> m,
      quat |-> [i \in Slots |-> IF i \in FaultSlots THEN f[i] ELSE "ok"]] :
        pp \in ((({-1} \cup Slots) \X {FALSE}) \cup (FaultSlots \X {TRUE})),
        m \in MuxOutcomes, f \in [FaultSlots -> ReadOutcomes]}

\* the periodic check of one slot: cal_status() of a present slot; an
\* exception marks the slot absent
health_check(sens, hw) ==
    IF hw.probe = -1 \/ ~sens[hw.probe]
    THEN [sensors |-> sens, mux |-> <<>>]
    ELSE [sensors |-> [sens EXCEPT ![hw.probe] = ~hw.probe_fails],
          mux |-> Selected(hw.probe, hw.probe \div 2, hw.mux)]

\* a read pass that treats a quaternion of the wrong length as a read error
read_sensors_strict(sens, hw) ==
    [sensors |-> [i \in Slots |-> sens[i] /\ hw.quat[i] = "ok"],
     buffer |-> [i \in Slots |->
                   IF sens[i] /\ hw.quat[i] = "ok" THEN "quat" ELSE "zero"],
     mux |-> Flat([i \in Slots |-> Selected(i, i \div 2, hw.mux)], NumSensors)]

\* for idx in range(8), under sensor_lock: the channel is selected for every
\* slot; a present slot is read; a tuple of four is copied, any other
\* tuple gives zeros, an exception gives zeros and sensors[idx] = None; an
\* absent slot gives zeros
read_sensors(sens, hw) ==
    [sensors |-> [i \in Slots |-> sens[i] /\ hw.quat[i] # "raises"],
     buffer |-> [i \in Slots |->
                   IF sens[i] /\ hw.quat[i] = "ok" THEN "quat" ELSE "zero"],
     mux |-> Flat([i \in Slots |-> Selected(i, i \div 2, hw.mux)], NumSensors)]

\* main() or the I command runs init_sensors()
SensInit(hw) ==
    /\ NodeAlive
    /\ \E r \in {init_sensors_hw(hw)} :
         /\ sensors' = r.sensors
         /\ call' = [fn |-> "init_sensors", args |-> <<sensors, hw>>, result |-> r]
    /\ UNCHANGED <<reading_enabled, current_log_level, emergency_stop, node_main,
                   failures, node_reset, srv_pc, readers, ncmds, lastCmd,
                   lastDSet, levelWriter, consec>>
    /\ UNCHANGED <<rx_vars, ctl_vars, status_threads, i2c, thr>>

\* the C command runs check_sensor_status()
SensCheck(hw) ==
    /\ NodeAlive
    /\ \E r \in {check_sensor_status_hw(sensors, hw)} :
         /\ sensors' = r.sensors
         /\ call' = [fn |-> "check_sensor_status", args |-> <<sensors, hw>>,
                     result |-> r]
    /\ UNCHANGED <<reading_enabled, current_log_level, emergency_stop, node_main,
                   failures, node_reset, srv_pc, readers, ncmds, lastCmd,
                   lastDSet, levelWriter, consec>>
    /\ UNCHANGED <<rx_vars, ctl_vars, status_threads, i2c, thr>>

\* one pass of the while loop of sensor_reading_thread: the health check if
\* it is due, then the read pass; the frame is sent and the loop goes on
SensReadPass(hw) ==
    /\ NodeAlive
    /\ \E h \in {health_check(sensors, hw)} :
       \E r \in {read_sensors(h.sensors, hw)} :
         /\ sensors' = r.sensors
         /\ call' = [fn |-> "read_pass", args |-> <<sensors, hw>>,
                     result |-> [sensors |-> r.sensors, buffer |-> r.buffer,
                                 checked |-> h.sensors,
                                 mux |-> h.mux \o r.mux]]
    /\ UNCHANGED <<reading_enabled, current_log_level, emergency_stop, node_main,
                   failures, node_reset, srv_pc, readers, ncmds, lastCmd,
                   lastDSet, levelWriter, consec>>
    /\ UNCHANGED <<rx_vars, ctl_vars, status_threads, i2c, thr>>

(***************************************************************************)
(* TCPServer.send_to_node: one command connection to the node.             *)
(***************************************************************************)
\* the step of send_to_node that raises, if any
SendFails == {"none", "socket", "connect", "send", "recv"}

\* what recv(4096) returns when it returns
NodeReplies ==
    {<<>>, <<"OK", ":", "pong">>, <<"OK">>, <<"ERROR", ":", "Unknown command">>,
     <<"busy">>}

SendEnvs == [fail : SendFails, response : NodeReplies]

SentCodes == {<<"S">>, <<"X">>, <<"N">>, <<"C">>, <<"I">>, <<"P">>, <<"D", ":", "3">>}

\* the try block: the socket events in order, whether cmd_sock was bound,
\* the line written to the host and the returned pair
send_to_node_try(command_code, wait_for_response, env) ==
    LET timeout_sec == IF command_code = <<"I">> THEN 20
                       ELSE IF command_code = <<"C">> THEN 10 ELSE 5
        R(sock, trace, host, success, response) ==
            [cmd_sock |-> sock, trace |-> trace, host |-> host,
             success |-> success, response |-> response,
             timeout_sec |-> timeout_sec]
        parts == SplitOnce(env.response, ":")
        status == IF IndexOf(env.response, ":") # 0 THEN parts[1] ELSE <<"UNKNOWN">>
        message == IF IndexOf(env.response, ":") # 0 THEN parts[2] ELSE env.response
    IN CASE env.fail = "socket" ->
              R(FALSE, <<>>, <<>>, FALSE, <<"Error: ">>)
         [] env.fail = "connect" ->
              R(TRUE, <<"socket">>, <<>>, FALSE, <<"Error: ">>)
         [] env.fail = "send" ->
              R(TRUE, <<"socket", "connect">>, <<>>, FALSE, <<"Error: ">>)
         [] OTHER ->
              IF ~wait_for_response
              THEN R(TRUE, <<"socket", "connect", "send">>, <<>>, TRUE,
                     <<"Command sent (no response requested)">>)
              ELSE IF env.fail = "recv"
              THEN R(TRUE, <<"socket", "connect", "send">>, <<>>, FALSE,
                     <<"Error: ">>)
              ELSE IF env.response = <<>>
              THEN R(TRUE, <<"socket", "connect", "send", "recv">>, <<>>, FALSE,
                     <<"Empty response">>)
              ELSE IF status = <<"OK">>
              THEN R(TRUE, <<"socket", "connect", "send", "recv">>,
                     <<"LOG:[NODE] Command successful: ">> \o message \o <<"\n">>,
                     TRUE, message)
              ELSE R(TRUE, <<"socket", "connect", "send", "recv">>,
                     <<"LOG:[NODE] Command failed: ">> \o message \o <<"\n">>,
                     FALSE, message)

\* a send_to_node that closes its socket at the end of the try block only
send_to_node_no_finally(command_code, wait_for_response, env) ==
    LET r == send_to_node_try(command_code, wait_for_response, env)
    IN [r EXCEPT !.trace = IF env.fail = "none" /\ r.cmd_sock
                           THEN @ \o <<"close">> ELSE @]

\* finally: if cmd_sock: cmd_sock.close()
send_to_node(command_code, wait_for_response, env) ==
    LET r == send_to_node_try(command_code, wait_for_response, env)
    IN [r EXCEPT !.trace = IF r.cmd_sock THEN @ \o <<"close">> ELSE @]

\* a handler of the receiver calls tcp_server.send_to_node
RxSendToNode(command_code, wait_for_response, env) ==
    /\ RxAlive /\ rx_main = "running"
    /\ call' = [fn |-> "send_to_node",
                args |-> <<command_code, wait_for_response, env>>,
                result |-> send_to_node(command_code, wait_for_response, env)]
    /\ UNCHANGED <<node_vars, rx_vars, ctl_vars, status_threads, i2c, thr>>

\* nobody holds sensor_lock or uses the bus
LockThreads == 1..MaxLockThreads
NoThr == [t \in LockThreads |-> [device |-> "", events |-> <<>>, pos |-> 0]]
NoBus == [sensor_lock |-> "none", reader |-> "idle", handler |-> "idle"]

\* no call has been observed
NoCall == [fn |-> None, args |-> <<>>, result |-> <<>>]

CtlInit ==
    /\ hb_clock = [k \in SockIds |-> NoClock]
    /\ receiver_tcp = 0
    /\ socks = [k \in SockIds |-> NoSock]
    /\ conn_threads = [t \in ConnIds |-> IdleConn]
    /\ handlers = [k \in SockIds |-> NoHandler]
    /\ wire = [k \in SockIds |-> <<>>]
    /\ last_heartbeat = 0
    /\ ctl_store = [prev |-> 0, new |-> 0]
    /\ ctl_recv = [frames |-> <<>>, kind |-> None, host |-> <<>>]

(***************************************************************************)
(* Initial states and specifications.                                      *)
(***************************************************************************)
vars == <<reading_enabled, sensors, current_log_level, emergency_stop,
          node_main, failures, node_reset, srv_pc, readers, ncmds, lastCmd,
          lastDSet, levelWriter, consec,
          rx_emergency_stop, rx_log_level, rx_main, rx_failures, rx_reset,
          rx_safe, rx_gens, rx_ncmds, rx_consec, rx_safe_cause,
          rx_cmds_in_safe, rx_out, rx_lost, rx_seen, rx_relay,
          receiver_tcp, socks, conn_threads, handlers, wire,
          last_heartbeat, ctl_store, ctl_recv, hb_clock, call,
          status_threads, i2c, thr>>

\* no host command line has been processed
NoRelay == [line |-> <<>>, gen |-> 0, trace |-> <<>>, udp_server |-> FALSE,
            node_ok |-> FALSE, sock_ok |-> FALSE]

\* the receiver after main() has reset the emergency flag
RxInit ==
    /\ rx_emergency_stop = FALSE
    /\ rx_log_level = LOG_INFO
    /\ rx_main = "ap"
    /\ rx_failures = 0
    /\ rx_reset = FALSE
    /\ rx_safe = [was_emergency |-> FALSE, old_log_level |-> LOG_INFO]
    /\ rx_gens = <<>>
    /\ rx_ncmds = 0
    /\ rx_consec = [ap |-> 0, tcp |-> 0]
    /\ rx_safe_cause = None
    /\ rx_cmds_in_safe = 0
    /\ rx_out = <<>>
    /\ rx_lost = <<>>
    /\ rx_seen = [prev |-> <<>>, frame |-> <<>>, path |-> None,
                  lvl |-> LOG_INFO]
    /\ rx_relay = NoRelay

RxNext ==
    \/ \E ok \in BOOLEAN : RxStartAp(ok)
    \/ \E ok \in BOOLEAN : RxCreateTcp(ok)
    \/ RxApStopped
    \/ RxMonitorError
    \/ RxMainObserveStop
    \/ RxKeyboardInterrupt
    \/ RxSafeModeInterrupt
    \/ \E g \in 1..MaxGen, line \in HostLines, env \in HostEnvs :
         RxHostCommand(g, line, env)
    \/ \E g \in 1..MaxGen : RxCmdObserveStop(g)
    \/ \E g \in 1..MaxGen : RxUdpObserveStop(g)

Init == NodeInit /\ RxInit /\ CtlInit /\ call = NoCall /\ status_threads = FALSE /\ i2c = NoBus /\ thr = NoThr

\* the node
Next == NodeNext

Spec == Init /\ [][Next]_vars

\* the receiver's supervisor and host command reader
SpecRx == Init /\ [][RxNext]_vars

\* one streaming session of the node, run for as many ticks as it takes the
\* sequence number to wrap: the node starts, one client sends S and later X
QuietTick == [probe |-> -1, probe_fails |-> FALSE, bad |-> {}]

SeqNext ==
    \/ NodeConnectWifi(TRUE)
    \/ NodeInitSensors(Slots)
    \/ SrvAccept
    \/ ncmds = 0 /\ NodeCommand(<<"S">>, NoEnv)
    \/ ncmds = 1 /\ NodeCommand(<<"X">>, NoEnv)
    \/ ReaderStart(1)
    \/ ReaderTick(1, QuietTick)
    \/ ReaderExit(1)

SpecSeq == Init /\ [][SeqNext]_vars

\* the receiver while it streams: main() is in its monitor loop and the host
\* command S has started the UDP consumer
UdpInit ==
    /\ NodeInit
    /\ CtlInit
    /\ call = NoCall /\ status_threads = FALSE /\ i2c = NoBus /\ thr = NoThr
    /\ rx_emergency_stop = FALSE
    /\ rx_log_level = LOG_INFO
    /\ rx_main = "running"
    /\ rx_failures = 0
    /\ rx_reset = FALSE
    /\ rx_safe = [was_emergency |-> FALSE, old_log_level |-> LOG_INFO]
    /\ rx_gens = <<[NewGen EXCEPT !.udp_server = TRUE, !.udp_socket = TRUE,
                                  !.consumer = NewConsumer]>>
    /\ rx_ncmds = 1
    /\ rx_consec = [ap |-> 0, tcp |-> 0]
    /\ rx_safe_cause = None
    /\ rx_cmds_in_safe = 0
    /\ rx_out = <<>>
    /\ rx_lost = <<>>
    /\ rx_seen = [prev |-> <<>>, frame |-> <<>>, path |-> None,
                  lvl |-> LOG_INFO]
    /\ rx_relay = NoRelay

UdpNext ==
    \/ \E data \in UdpFrames, path \in RecvPaths : RxUdpReceive(1, data, path)
    \/ RxUdpError(1)
    \/ RxUdpObserveStop(1)
    \/ \E line \in {<<"X">>, <<"D", ":", "3">>}, env \in HostEnvs :
         RxHostCommand(1, line, env)

SpecUdp == UdpInit /\ [][UdpNext]_vars

\* the control channel between a node past its WiFi stage and a receiver
\* that runs its TCP server
CtlNext ==
    \/ NodeConnectWifi(TRUE)
    \/ NodeKeyboardInterrupt
    \/ RxStartAp(TRUE)
    \/ RxCreateTcp(TRUE)
    \/ RxKeyboardInterrupt
    \/ \E t \in ConnIds, ok \in BOOLEAN : ConnConnect(t, ok)
    \/ \E t \in ConnIds : ConnStore(t)
    \/ \E t \in ConnIds, ok \in BOOLEAN : ConnHello(t, ok)
    \/ \E t \in ConnIds, ok \in BOOLEAN : ConnHeartbeat(t, ok)
    \/ \E t \in ConnIds : ConnCleanup(t)
    \/ \E t \in ConnIds : ConnBackoff(t)
    \/ \E t \in ConnIds : ConnObserveStop(t)
    \/ NodeLog
    \/ \E i \in SockIds : RxTcpAccept(i)
    \/ \E i \in SockIds : RxHandlerStore(i)
    \/ \E i \in SockIds, n \in 1 .. MaxWire : RxHandlerRecv(i, n)
    \/ \E i \in SockIds : RxHandlerLeave(i)

SpecCtl == Init /\ [][CtlNext]_vars

\* the node's operations on the sensor array
SensNext ==
    \/ \E hw \in InitHw : SensInit(hw)
    \/ \E hw \in CheckHw : SensCheck(hw)
    \/ \E hw \in ReadHw : SensReadPass(hw)

SpecSens == Init /\ [][SensNext]_vars

\* the node and its threads up to their end: main(), the command server
\* with the commands that start and stop streaming and Q, the read loop,
\* the status thread and the control-channel client
StopFrames == {<<"S">>, <<"Q">>}

\* one pass of the read loop in which every read succeeds
ReaderLoop(t) ==
    /\ readers[t].pc = "loop"
    /\ readers[t].seq_num < MaxTick \/ emergency_stop \/ ~reading_enabled
    /\ ReaderTick(t, QuietTick)

StopNext ==
    \/ \E ok \in BOOLEAN : NodeConnectWifi(ok)
    \/ \E c \in InitOutcomes : NodeInitSensors(c)
    \/ NodeMainObserveStop
    \/ NodeKeyboardInterrupt
    \/ SrvAccept
    \/ SrvClientClosed
    \/ SrvObserveStop
    \/ /\ srv_pc = "recv" /\ ncmds < MaxCmds
       /\ \E data \in StopFrames : NodeCommand(data, NoEnv)
    \/ \E t \in ReaderIds : ReaderStart(t)
    \/ \E t \in ReaderIds : ReaderLoop(t)
    \/ \E t \in ReaderIds : ReaderExit(t)
    \/ StatusObserveStop
    \/ RxStartAp(TRUE)
    \/ RxCreateTcp(TRUE)
    \/ \E t \in ConnIds, ok \in BOOLEAN : ConnConnect(t, ok)
    \/ \E t \in ConnIds : ConnStore(t)
    \/ \E t \in ConnIds, ok \in BOOLEAN : ConnHello(t, ok)
    \/ \E t \in ConnIds : ConnCleanup(t)
    \/ \E t \in ConnIds : ConnBackoff(t)
    \/ \E t \in ConnIds : ConnObserveStop(t)

\* every thread of the node keeps being scheduled, and each of its blocking
\* calls returns: accept() after 3 s, the command recv() after 5 s, the
\* control-channel connect() after 5 s and its send() after 0.5 s, the UDP
\* sendto() after 0.1 s, the sleeps after their time
StopFairness ==
    /\ WF_vars(\E c \in InitOutcomes : NodeInitSensors(c))
    /\ WF_vars(NodeMainObserveStop)
    /\ WF_vars(SrvObserveStop)
    /\ WF_vars(StatusObserveStop)
    /\ \A t \in ReaderIds :
         /\ WF_vars(ReaderStart(t))
         /\ WF_vars(ReaderLoop(t))
         /\ WF_vars(ReaderExit(t))
    /\ \A t \in ConnIds :
         /\ WF_vars(ConnStore(t))
         /\ WF_vars(\E ok \in BOOLEAN : ConnHello(t, ok))
         /\ WF_vars(ConnCleanup(t))
         /\ WF_vars(ConnBackoff(t))
         /\ WF_vars(ConnObserveStop(t))

SpecStop == Init /\ [][StopNext]_vars /\ StopFairness

(***************************************************************************)
(* Node: what a thread does with the locks and the sockets, as a sequence  *)
(* of events: taking a lock, releasing it, a socket call.                  *)
(***************************************************************************)
Acq(l) == [op |-> "acquire", what |-> l]
Rel(l) == [op |-> "release", what |-> l]
Io(c) == [op |-> "io", what |-> c]

\* a log() that reads the streaming flag under reading_lock while it holds
\* tcp_lock, to put it into the line
log_events_with_reading_lock(level, lvl, tcp) ==
    IF level < lvl THEN <<>>
    ELSE <<Acq("tcp_lock"), Acq("reading_lock"), Rel("reading_lock")>>
         \o (IF tcp THEN <<Io("receiver_tcp.send")>> ELSE <<>>)
         \o <<Rel("tcp_lock")>>

\* log(message, level): a message below the level is dropped before the
\* lock; otherwise with tcp_lock: if receiver_tcp: receiver_tcp.send(...)
log_events(level, lvl, tcp) ==
    IF level < lvl THEN <<>>
    ELSE <<Acq("tcp_lock")>>
         \o (IF tcp THEN <<Io("receiver_tcp.send")>> ELSE <<>>)
         \o <<Rel("tcp_lock")>>

\* start_streaming: the whole body is inside with reading_lock; each of its
\* three branches logs (the except branch at LOG_ERROR)
start_streaming_events(re, start_fails, lvl, tcp) ==
    <<Acq("reading_lock")>>
    \o log_events(IF ~re /\ start_fails THEN LOG_ERROR ELSE LOG_INFO, lvl, tcp)
    \o <<Rel("reading_lock")>>

\* stop_streaming: the whole body is inside with reading_lock; both branches log
stop_streaming_events(re, lvl, tcp) ==
    <<Acq("reading_lock")>> \o log_events(LOG_INFO, lvl, tcp)
    \o <<Rel("reading_lock")>>

\* the read loop: with reading_lock: if not reading_enabled: log(...); break
reading_check_events(re, lvl, tcp) ==
    <<Acq("reading_lock")>>
    \o (IF ~re THEN log_events(LOG_INFO, lvl, tcp) ELSE <<>>)
    \o <<Rel("reading_lock")>>

\* the read loop's periodic check of one slot, inside with sensor_lock: a
\* probe that raises is logged at LOG_WARNING before the slot is cleared
health_check_events(present, probe_fails, lvl, tcp) ==
    <<Acq("sensor_lock")>>
    \o (IF present /\ probe_fails THEN log_events(LOG_WARNING, lvl, tcp)
        ELSE <<>>)
    \o <<Rel("sensor_lock")>>

\* the locks a thread holds when it comes to event n of its trace
RECURSIVE Held(_, _)
Held(trace, n) ==
    IF n <= 1 THEN {}
    ELSE LET h == Held(trace, n - 1)
             e == trace[n - 1]
         IN IF e.op = "acquire" THEN h \cup {e.what}
            ELSE IF e.op = "release" THEN h \ {e.what}
            ELSE h

LockFns == {"log", "start_streaming", "stop_streaming", "reading_check",
            "health_check"}

LkLog(level) ==
    /\ NodeAlive /\ node_main = "running"
    /\ call' = [fn |-> "log",
                args |-> <<level, current_log_level, receiver_tcp # 0>>,
                result |-> log_events(level, current_log_level,
                                      receiver_tcp # 0)]
    /\ UNCHANGED <<node_vars, rx_vars, ctl_vars, status_threads, i2c, thr>>

LkStartStreaming(start_fails) ==
    /\ NodeAlive /\ srv_pc = "recv"
    /\ call' = [fn |-> "start_streaming",
                args |-> <<reading_enabled, start_fails, current_log_level,
                           receiver_tcp # 0>>,
                result |-> start_streaming_events(reading_enabled, start_fails,
                               current_log_level, receiver_tcp # 0)]
    /\ UNCHANGED <<node_vars, rx_vars, ctl_vars, status_threads, i2c, thr>>

LkStopStreaming ==
    /\ NodeAlive /\ srv_pc = "recv"
    /\ call' = [fn |-> "stop_streaming",
                args |-> <<reading_enabled, current_log_level,
                           receiver_tcp # 0>>,
                result |-> stop_streaming_events(reading_enabled,
                               current_log_level, receiver_tcp # 0)]
    /\ UNCHANGED <<node_vars, rx_vars, ctl_vars, status_threads, i2c, thr>>

LkReadingCheck(t) ==
    /\ NodeAlive /\ readers[t].pc = "loop"
    /\ call' = [fn |-> "reading_check",
                args |-> <<reading_enabled, current_log_level,
                           receiver_tcp # 0>>,
                result |-> reading_check_events(reading_enabled,
                               current_log_level, receiver_tcp # 0)]
    /\ UNCHANGED <<node_vars, rx_vars, ctl_vars, status_threads, i2c, thr>>

LkHealthCheck(t, slot, probe_fails) ==
    /\ NodeAlive /\ readers[t].pc = "loop"
    /\ call' = [fn |-> "health_check",
                args |-> <<sensors[slot], probe_fails, current_log_level,
                           receiver_tcp # 0>>,
                result |-> health_check_events(sensors[slot], probe_fails,
                               current_log_level, receiver_tcp # 0)]
    /\ UNCHANGED <<node_vars, rx_vars, ctl_vars, status_threads, i2c, thr>>

\* the node brought up with its control channel, a command client that
\* starts and stops streaming, and the lock use of its threads
LockFrames == {<<"S">>, <<"X">>}

LockNext ==
    \/ NodeConnectWifi(TRUE)
    \/ \E c \in InitOutcomes : NodeInitSensors(c)
    \/ SrvAccept
    \/ /\ srv_pc = "recv" /\ ncmds < MaxCmds
       /\ \E data \in LockFrames : NodeCommand(data, NoEnv)
    \/ \E t \in ReaderIds : ReaderStart(t)
    \/ \E t \in ReaderIds : ReaderLoop(t)
    \/ \E t \in ReaderIds : ReaderExit(t)
    \/ RxStartAp(TRUE)
    \/ RxCreateTcp(TRUE)
    \/ \E t \in ConnIds : ConnConnect(t, TRUE)
    \/ \E t \in ConnIds : ConnStore(t)
    \/ \E t \in ConnIds : ConnHello(t, TRUE)
    \/ \E level \in {LOG_DEBUG, LOG_INFO, LOG_WARNING, LOG_ERROR} : LkLog(level)
    \/ \E start_fails \in BOOLEAN : LkStartStreaming(start_fails)
    \/ LkStopStreaming
    \/ \E t \in ReaderIds : LkReadingCheck(t)
    \/ \E t \in ReaderIds, slot \in Slots, probe_fails \in BOOLEAN :
         LkHealthCheck(t, slot, probe_fails)

SpecLock == Init /\ [][LockNext]_vars

(***************************************************************************)
(* Node: the periodic health check of sensor_reading_thread.  The loop     *)
(* runs a check in the first pass in which check_interval ms have gone by  *)
(* since the last one, and probes the slot int(current_time) % 8.          *)
(***************************************************************************)
\* sensor_to_check = (int(current_time) % 8)
sensor_to_check(current_time) == current_time % NumSensors

\* the pass of the read loop in which a check is due: `late` ms after the
\* interval has gone by (a pass of the loop takes 15 ms and more)
ReaderHealthCheckDue(late) ==
    /\ call.fn \in {None, "sensor_to_check"}
    /\ \E first \in 0 .. (NumSensors - 1) :
         LET n == IF call.fn = None THEN 0 ELSE call.args.n
             last_check_time == IF call.fn = None THEN first
                                ELSE call.result.current_time
             prev == IF call.fn = None THEN -1 ELSE call.result.slot
             current_time == last_check_time + check_interval + late
         IN /\ call.fn = None \/ first = 0
            /\ n < MaxChecks
            /\ call' = [fn |-> "sensor_to_check",
                        args |-> [n |-> n + 1, last_check_time |-> last_check_time,
                                  prev |-> prev],
                        result |-> [current_time |-> current_time,
                                    slot |-> sensor_to_check(current_time)]]
    /\ UNCHANGED <<node_vars, rx_vars, ctl_vars, status_threads, i2c, thr>>

HealthNext == \E late \in 0 .. MaxLateMs : ReaderHealthCheckDue(late)

SpecHealth == Init /\ [][HealthNext]_vars

(***************************************************************************)
(* One pass of each long-running loop as the sequence of what it does,     *)
(* for each way its blocking call can end.                                 *)
(***************************************************************************)
NodeLoops == {"tcp_command_server_thread", "handle_command_client",
              "receiver_connection_thread", "sensor_reading_thread"}

RxLoops == {"TCPServer.run", "TCPServer.handle_client", "UDPServer.run",
            "CommandHandler.run"}

PassOutcomes == {"data", "timeout", "error", "closed"}

\* node: the accept loop feeds at the end of its body and `continue`s past
\* that on a timeout; the command loop feeds after a recv() that gave data;
\* the control-channel loop and the read loop feed at the top of the body
node_loop_pass(loop, outcome) ==
    CASE loop = "tcp_command_server_thread" ->
           IF outcome = "timeout" THEN <<"accept", "continue">>
           ELSE IF outcome = "data"
                THEN <<"accept", "log", "handle_command_client", "feed_watchdog">>
                ELSE <<"accept", "log", "sleep", "feed_watchdog">>
      [] loop = "handle_command_client" ->
           IF outcome = "timeout" THEN <<"recv", "continue">>
           ELSE IF outcome = "data"
                THEN <<"recv", "feed_watchdog", "handler", "send">>
                ELSE IF outcome = "closed" THEN <<"recv", "log", "break">>
                     ELSE <<"recv", "log", "break">>
      [] loop = "receiver_connection_thread" ->
           IF outcome = "data" THEN <<"feed_watchdog", "send", "log", "sleep">>
           ELSE IF outcome = "timeout" THEN <<"feed_watchdog", "sleep">>
                ELSE <<"feed_watchdog", "send", "log", "break">>
      [] loop = "sensor_reading_thread" ->
           IF outcome = "closed" THEN <<"feed_watchdog", "log", "break">>
           ELSE IF outcome = "data"
                THEN <<"feed_watchdog", "read", "sendto", "sleep">>
                ELSE <<"feed_watchdog", "read", "sendto", "log", "sleep">>

\* receiver: each loop feeds at the top of its body, before the blocking call
rx_loop_pass(loop, outcome) ==
    CASE loop = "TCPServer.run" ->
           IF outcome = "timeout" THEN <<"feed_watchdog", "accept", "continue">>
           ELSE IF outcome = "data"
                THEN <<"feed_watchdog", "accept", "log", "start_new_thread">>
                ELSE <<"feed_watchdog", "accept", "log", "sleep">>
      [] loop = "TCPServer.handle_client" ->
           IF outcome = "timeout" THEN <<"feed_watchdog", "select">>
           ELSE IF outcome = "data"
                THEN <<"feed_watchdog", "select", "recv", "handle">>
                ELSE <<"feed_watchdog", "select", "recv", "log", "break">>
      [] loop = "UDPServer.run" ->
           IF outcome = "data" THEN <<"feed_watchdog", "recvfrom", "write">>
           ELSE IF outcome = "timeout" THEN <<"feed_watchdog", "recvfrom">>
                ELSE <<"feed_watchdog", "recvfrom", "log", "sleep">>
      [] loop = "CommandHandler.run" ->
           IF outcome = "data" THEN <<"feed_watchdog", "select", "read">>
           ELSE IF outcome = "timeout" THEN <<"feed_watchdog", "select">>
                ELSE <<"feed_watchdog", "select", "log", "sleep">>

\* a node thread makes one pass of its loop
WdNodeLoopPass(loop, outcome) ==
    /\ NodeAlive /\ ~emergency_stop
    /\ CASE loop = "tcp_command_server_thread" -> srv_pc = "accept"
         [] loop = "handle_command_client" -> srv_pc = "recv"
         [] loop = "receiver_connection_thread" ->
              \E t \in ConnIds : conn_threads[t].pc = "loop"
         [] loop = "sensor_reading_thread" ->
              \E t \in ReaderIds : readers[t].pc = "loop"
    /\ call' = [fn |-> loop, args |-> <<outcome>>,
                result |-> node_loop_pass(loop, outcome)]
    /\ UNCHANGED <<node_vars, rx_vars, ctl_vars, status_threads, i2c, thr>>

\* a service thread of the running receiver makes one pass of its loop
WdRxLoopPass(loop, outcome) ==
    /\ RxAlive /\ rx_main = "running"
    /\ call' = [fn |-> loop, args |-> <<outcome>>,
                result |-> rx_loop_pass(loop, outcome)]
    /\ UNCHANGED <<node_vars, rx_vars, ctl_vars, status_threads, i2c, thr>>

\* both devices brought up, a command client on the node, and the passes
\* of the loops
WdtNext ==
    \/ NodeConnectWifi(TRUE)
    \/ \E c \in InitOutcomes : NodeInitSensors(c)
    \/ SrvAccept
    \/ SrvClientClosed
    \/ /\ srv_pc = "recv" /\ ncmds < MaxCmds
       /\ \E data \in LockFrames : NodeCommand(data, NoEnv)
    \/ \E t \in ReaderIds : ReaderStart(t)
    \/ \E t \in ReaderIds : ReaderLoop(t)
    \/ \E t \in ReaderIds : ReaderExit(t)
    \/ RxStartAp(TRUE)
    \/ RxCreateTcp(TRUE)
    \/ \E t \in ConnIds : ConnConnect(t, TRUE)
    \/ \E t \in ConnIds : ConnStore(t)
    \/ \E t \in ConnIds : ConnHello(t, TRUE)
    \/ \E loop \in NodeLoops, outcome \in PassOutcomes :
         WdNodeLoopPass(loop, outcome)
    \/ \E loop \in RxLoops, outcome \in PassOutcomes :
         WdRxLoopPass(loop, outcome)

SpecWdt == Init /\ [][WdtNext]_vars

\* the running node with a command client that starts, stops and
\* reinitialises, and the read loops these commands start
StreamFrames == {<<"S">>, <<"X">>, <<"I">>}

StreamNext ==
    \/ NodeConnectWifi(TRUE)
    \/ \E c \in InitOutcomes : NodeInitSensors(c)
    \/ SrvAccept
    \/ /\ srv_pc = "recv" /\ ncmds < MaxStreamCmds
       /\ \E data \in StreamFrames : \E env \in EnvsFor(data) : NodeCommand(data, env)
    \/ \E t \in ReaderIds : ReaderStart(t)
    \/ \E t \in ReaderIds : ReaderLoop(t)
    \/ \E t \in ReaderIds : ReaderExit(t)

SpecStream == Init /\ [][StreamNext]_vars

(***************************************************************************)
(* Node: the use of the I2C bus.  A thread is "on the bus" from its        *)
(* select_sensor(channel) to the end of the sensor operation that follows. *)
(***************************************************************************)
\* the read section of sensor_reading_thread: with sensor_lock: for each
\* slot select_sensor(channel), sensor.quaternion()
BusReader ==
    /\ NodeAlive /\ \E t \in ReaderIds : readers[t].pc = "loop"
    /\ \/ /\ i2c.reader = "idle" /\ i2c.sensor_lock = "none"
          /\ i2c' = [i2c EXCEPT !.reader = "locked", !.sensor_lock = "reader"]
       \/ /\ i2c.reader = "locked"
          /\ i2c' = [i2c EXCEPT !.reader = "bus"]
       \/ /\ i2c.reader = "bus"
          /\ i2c' = [i2c EXCEPT !.reader = "idle", !.sensor_lock = "none"]
    /\ UNCHANGED <<node_vars, rx_vars, ctl_vars, call, status_threads, thr>>

\* init_sensors run by the I handler (accepted when the node is not
\* streaming): select_sensor(channel) and BNO055(i2c, address=addr) outside
\* any lock, then with sensor_lock: sensors[idx] = sensor
BusInitSensors ==
    /\ NodeAlive /\ srv_pc = "recv" /\ ~reading_enabled
    /\ \/ /\ i2c.handler = "idle"
          /\ i2c' = [i2c EXCEPT !.handler = "init_bus"]
       \/ /\ i2c.handler = "init_bus" /\ i2c.sensor_lock = "none"
          /\ i2c' = [i2c EXCEPT !.handler = "init_store", !.sensor_lock = "handler"]
       \/ /\ i2c.handler = "init_store"
          /\ i2c' = [i2c EXCEPT !.handler = "idle", !.sensor_lock = "none"]
    /\ UNCHANGED <<node_vars, rx_vars, ctl_vars, call, status_threads, thr>>

\* check_sensor_status run by the C handler: with sensor_lock: for each
\* present slot select_sensor(channel), sensor.cal_status()
BusCheckStatus ==
    /\ NodeAlive /\ srv_pc = "recv" /\ ~reading_enabled
    /\ \/ /\ i2c.handler = "idle" /\ i2c.sensor_lock = "none"
          /\ i2c' = [i2c EXCEPT !.handler = "check_bus", !.sensor_lock = "handler"]
       \/ /\ i2c.handler = "check_bus"
          /\ i2c' = [i2c EXCEPT !.handler = "idle", !.sensor_lock = "none"]
    /\ UNCHANGED <<node_vars, rx_vars, ctl_vars, call, status_threads, thr>>

\* the running node, a client that starts and stops streaming, and the
\* bus use of the read loop and of the I and C handlers
BusNext ==
    \/ NodeConnectWifi(TRUE)
    \/ \E c \in InitOutcomes : NodeInitSensors(c)
    \/ SrvAccept
    \/ /\ srv_pc = "recv" /\ ncmds < MaxCmds /\ i2c.handler = "idle"
       /\ \E data \in LockFrames : NodeCommand(data, NoEnv)
    \/ \E t \in ReaderIds : ReaderStart(t)
    \/ \E t \in ReaderIds : i2c.reader = "idle" /\ ReaderLoop(t)
    \/ \E t \in ReaderIds : ReaderExit(t)
    \/ BusReader
    \/ BusInitSensors
    \/ BusCheckStatus

SpecBus == Init /\ [][BusNext]_vars

(***************************************************************************)
(* The service threads that main() of each device has started, pass by     *)
(* pass of its initialization loop.  A service thread ends only on the     *)
(* emergency stop (the receiver's also on a stop through cleanup), which   *)
(* no retry sets, so every start adds a running instance.                  *)
(***************************************************************************)
NoThreads == [failures |-> 0, safe |-> FALSE, client |-> 0, server |-> 0,
              status |-> 0]

NodePassOutcomes == {"wifi_fails", "sensors_fail", "monitor_error"}

RxPassOutcomes == {"ap_fails", "tcp_fails", "ap_stopped", "monitor_error"}

\* the SafeMode rule at the end of a failed pass; safe_mode() of the node
\* starts a command server
failed_pass(m, safe_starts_server) ==
    LET f == m.failures + 1
    IN IF f >= max_failures
       THEN [m EXCEPT !.failures = f, !.safe = TRUE,
                      !.server = IF safe_starts_server THEN @ + 1 ELSE @]
       ELSE [m EXCEPT !.failures = f]

\* node main(): one pass of the initialization loop that ends as `outcome`
node_main_pass(m, outcome) ==
    IF outcome = "wifi_fails" THEN failed_pass(m, TRUE)
    ELSE LET m1 == [m EXCEPT !.failures = 0, !.client = @ + 1]
         IN IF outcome = "sensors_fail" THEN failed_pass(m1, TRUE)
            ELSE failed_pass([m1 EXCEPT !.server = @ + 1, !.status = @ + 1], TRUE)

\* receiver main(): one pass of the initialization loop; `client` stands
\* for the host command reader, `server` for the TCP accept loop
rx_main_pass(m, outcome) ==
    IF outcome = "ap_fails" THEN failed_pass(m, FALSE)
    ELSE IF outcome = "tcp_fails" THEN failed_pass([m EXCEPT !.failures = 0], FALSE)
    ELSE LET m1 == [m EXCEPT !.failures = 0, !.server = @ + 1, !.client = @ + 1,
                             !.status = @ + 1]
         IN IF outcome = "ap_stopped" THEN m1 ELSE failed_pass(m1, FALSE)

\* main() of the node makes one more pass
SvcNodePass(outcome) ==
    /\ call.fn \in {None, "node main"}
    /\ LET m == IF call.fn = None THEN NoThreads ELSE call.result
           n == IF call.fn = None THEN 0 ELSE call.args[2]
       IN /\ ~m.safe /\ n < MaxPasses
          /\ call' = [fn |-> "node main", args |-> <<outcome, n + 1>>,
                      result |-> node_main_pass(m, outcome)]
    /\ UNCHANGED <<node_vars, rx_vars, ctl_vars, status_threads, i2c, thr>>

\* main() of the receiver makes one more pass
SvcRxPass(outcome) ==
    /\ call.fn \in {None, "receiver main"}
    /\ LET m == IF call.fn = None THEN NoThreads ELSE call.result
           n == IF call.fn = None THEN 0 ELSE call.args[2]
       IN /\ ~m.safe /\ n < MaxPasses
          /\ call' = [fn |-> "receiver main", args |-> <<outcome, n + 1>>,
                      result |-> rx_main_pass(m, outcome)]
    /\ UNCHANGED <<node_vars, rx_vars, ctl_vars, status_threads, i2c, thr>>

SvcNext ==
    \/ \E outcome \in NodePassOutcomes : SvcNodePass(outcome)
    \/ \E outcome \in RxPassOutcomes : SvcRxPass(outcome)

SpecSvc == Init /\ [][SvcNext]_vars

(***************************************************************************)
(* Both devices: the threads of one device taking and releasing its locks. *)
(* A thread runs one piece of code at a time, given as its sequence of     *)
(* lock and socket events; it takes a lock only when no thread holds it    *)
(* (_thread.allocate_lock() is not reentrant) and waits otherwise.         *)
(***************************************************************************)
\* with lock: a body without calls
Section(l) == <<Acq(l), Rel(l)>>

\* node check_emergency_stop(), emergency_stop_command's store and main()'s
\* reads and stores of the flag
check_emergency_stop_events == Section("emergency_lock")

\* node receiver_connection_thread, one pass of its outer loop: connect, log,
\* store the socket under tcp_lock, hello, one heartbeat (active sensors
\* counted under sensor_lock, log at LOG_DEBUG); or the except branch: log
\* at LOG_WARNING, clear receiver_tcp under tcp_lock
receiver_connection_events(fails, lvl, tcp) ==
    check_emergency_stop_events
    \o (IF fails
        THEN log_events(LOG_WARNING, lvl, tcp) \o Section("tcp_lock")
        ELSE log_events(LOG_INFO, lvl, tcp)
             \o <<Acq("tcp_lock")>>
             \o (IF tcp THEN <<Io("receiver_tcp.close")>> ELSE <<>>)
             \o <<Rel("tcp_lock")>>
             \o check_emergency_stop_events
             \o Section("sensor_lock")
             \o <<Io("client_sock.send")>>
             \o log_events(LOG_DEBUG, lvl, tcp))

\* node init_sensors(): sensors cleared under sensor_lock, each sensor found
\* stored under sensor_lock and logged at LOG_DEBUG after it, the count logged
init_sensors_events(found, lvl, tcp) ==
    Section("sensor_lock")
    \o (IF found
        THEN Section("sensor_lock") \o log_events(LOG_DEBUG, lvl, tcp)
        ELSE log_events(LOG_ERROR, lvl, tcp))
    \o log_events(LOG_INFO, lvl, tcp)

\* node check_sensor_status(): the whole scan is inside with sensor_lock; a
\* select_sensor that fails logs at LOG_ERROR inside it
check_sensor_status_events(select_fails, lvl, tcp) ==
    <<Acq("sensor_lock")>>
    \o (IF select_fails THEN log_events(LOG_ERROR, lvl, tcp) ELSE <<>>)
    \o <<Rel("sensor_lock")>>

\* node sensor_reading_thread: the start, one pass of the loop (emergency
\* flag, reading check, health check, the read of the slots under
\* sensor_lock, the datagram) and the finally block
sensor_reading_events(re, probe_fails, lvl, tcp) ==
    log_events(LOG_INFO, lvl, tcp)
    \o Section("reading_lock")
    \o check_emergency_stop_events
    \o reading_check_events(re, lvl, tcp)
    \o (IF re
        THEN health_check_events(TRUE, probe_fails, lvl, tcp)
             \o Section("sensor_lock")
             \o <<Io("udp_sock.sendto")>>
        ELSE <<>>)
    \o Section("reading_lock")

\* node reinitialize_sensors: log, the flag cleared under reading_lock,
\* init_sensors(), the flag set again and the thread started under
\* reading_lock, log
reinitialize_sensors_events(was_reading, found, lvl, tcp) ==
    log_events(LOG_INFO, lvl, tcp)
    \o Section("reading_lock")
    \o init_sensors_events(found, lvl, tcp)
    \o (IF was_reading /\ found THEN Section("reading_lock") ELSE <<>>)
    \o log_events(LOG_INFO, lvl, tcp)

\* node handle_command_client, one command: the streaming flag read under
\* reading_lock, then the rejection logged or the handler run
handle_command_events(handler, lvl, tcp) ==
    Section("reading_lock")
    \o (IF handler = <<>> THEN log_events(LOG_WARNING, lvl, tcp) ELSE handler)

\* node emergency_stop_command: log, the flag set under emergency_lock
emergency_stop_command_events(lvl, tcp) ==
    log_events(LOG_WARNING, lvl, tcp) \o check_emergency_stop_events

\* node system_status_thread, one pass
system_status_events(lvl, tcp) ==
    Section("sensor_lock") \o Section("reading_lock")
    \o log_events(LOG_INFO, lvl, tcp) \o check_emergency_stop_events

\* node cleanup_resources
cleanup_resources_events(lvl, tcp) ==
    log_events(LOG_INFO, lvl, tcp)
    \o Section("reading_lock")
    \o <<Acq("tcp_lock")>>
    \o (IF tcp THEN <<Io("receiver_tcp.close")>> ELSE <<>>)
    \o <<Rel("tcp_lock")>>
    \o log_events(LOG_INFO, lvl, tcp)

\* the code a node thread may be running
NodeThreadEvents ==
    UNION {
      {check_emergency_stop_events,
       emergency_stop_command_events(lvl, tcp),
       system_status_events(lvl, tcp),
       cleanup_resources_events(lvl, tcp)}
      \cup {receiver_connection_events(f, lvl, tcp) : f \in BOOLEAN}
      \cup {check_sensor_status_events(f, lvl, tcp) : f \in BOOLEAN}
      \cup {sensor_reading_events(re, f, lvl, tcp) : re \in BOOLEAN, f \in BOOLEAN}
      \cup {handle_command_events(h, lvl, tcp) :
              h \in {<<>>}
                \cup {start_streaming_events(re, f, lvl, tcp) :
                        re \in BOOLEAN, f \in BOOLEAN}
                \cup {stop_streaming_events(re, lvl, tcp) : re \in BOOLEAN}
                \cup {reinitialize_sensors_events(FALSE, f, lvl, tcp) :
                        f \in BOOLEAN}
                \cup {check_sensor_status_events(f, lvl, tcp) : f \in BOOLEAN}
                \cup {emergency_stop_command_events(lvl, tcp)}}
      : lvl \in {LOG_DEBUG, LOG_INFO}, tcp \in BOOLEAN}

\* receiver log(message, level): with log_level_lock: if level <
\* current_log_level: return; then the line is written to the host
rx_log_events(level, lvl) ==
    Section("log_level_lock")
    \o (IF level < lvl THEN <<>> ELSE <<Io("sys.stdout.write")>>)

\* receiver check_emergency_stop(), set_emergency_stop() and main()'s store
rx_check_emergency_stop_events == Section("receiver emergency_lock")

\* receiver TCPServer.stop(): log, with conn_lock: close node_conn, a close
\* that raises is logged at LOG_DEBUG inside the lock; log
tcp_stop_events(conn, close_fails, lvl) ==
    rx_log_events(LOG_INFO, lvl)
    \o <<Acq("conn_lock")>>
    \o (IF conn THEN <<Io("node_conn.close")>> ELSE <<>>)
    \o (IF conn /\ close_fails THEN rx_log_events(LOG_DEBUG, lvl) ELSE <<>>)
    \o <<Rel("conn_lock")>>

\* receiver TCPServer.handle_client: the old connection replaced under
\* conn_lock (a close that raises is logged at LOG_DEBUG inside the lock),
\* one message (last_heartbeat stored under heartbeat_lock, the message
\* logged), the finally block under conn_lock, log
handle_client_events(conn, close_fails, lvl) ==
    <<Acq("conn_lock")>>
    \o (IF conn THEN <<Io("node_conn.close")>> ELSE <<>>)
    \o (IF conn /\ close_fails THEN rx_log_events(LOG_DEBUG, lvl) ELSE <<>>)
    \o <<Rel("conn_lock")>>
    \o rx_check_emergency_stop_events
    \o Section("heartbeat_lock")
    \o rx_log_events(LOG_INFO, lvl)
    \o Section("conn_lock")
    \o rx_log_events(LOG_INFO, lvl)

\* receiver system_status_thread, one pass: last_heartbeat read under
\* heartbeat_lock, the status logged
rx_system_status_events(lvl) ==
    rx_check_emergency_stop_events \o Section("heartbeat_lock")
    \o rx_log_events(LOG_INFO, lvl)

\* receiver CommandHandler.set_debug_mode: the level stored under
\* log_level_lock, log
rx_set_debug_mode_events(lvl) ==
    Section("log_level_lock") \o rx_log_events(LOG_INFO, lvl)

\* receiver safe_mode(): the flag and the level stored, each under its lock;
\* log; on the way out both stored again
rx_safe_mode_events(lvl) ==
    rx_check_emergency_stop_events \o Section("log_level_lock")
    \o rx_log_events(LOG_WARNING, lvl)
    \o rx_check_emergency_stop_events \o Section("log_level_lock")

\* the code a receiver thread may be running
RxThreadEvents ==
    UNION {
      {rx_check_emergency_stop_events,
       rx_system_status_events(lvl),
       rx_set_debug_mode_events(lvl),
       rx_safe_mode_events(lvl)}
      \cup {rx_log_events(level, lvl) : level \in {LOG_DEBUG, LOG_INFO}}
      \cup {tcp_stop_events(c, f, lvl) : c \in BOOLEAN, f \in BOOLEAN}
      \cup {handle_client_events(c, f, lvl) : c \in BOOLEAN, f \in BOOLEAN}
      : lvl \in {LOG_DEBUG, LOG_INFO}}

\* the locks thread t holds
HeldBy(t) == Held(thr[t].events, thr[t].pos)

\* thread t has come to a with statement whose lock a thread holds
Waits(t) ==
    /\ thr[t].pos >= 1
    /\ thr[t].events[thr[t].pos].op = "acquire"
    /\ \E u \in LockThreads : thr[t].events[thr[t].pos].what \in HeldBy(u)

\* a thread enters a piece of code of its device
ThreadBegin(t, device, events) ==
    /\ thr[t].pos = 0
    /\ \A u \in LockThreads : thr[u].device \in {"", device}
    /\ thr' = [thr EXCEPT ![t] = [device |-> device, events |-> events,
                                  pos |-> 1]]
    /\ UNCHANGED <<node_vars, rx_vars, ctl_vars, call, status_threads, i2c>>

\* a thread performs its next event; after the last one it is idle again
ThreadStep(t) ==
    /\ thr[t].pos >= 1
    /\ ~Waits(t)
    /\ thr' = [thr EXCEPT ![t] =
                 IF thr[t].pos = Len(thr[t].events)
                 THEN [device |-> "", events |-> <<>>, pos |-> 0]
                 ELSE [@ EXCEPT !.pos = @ + 1]]
    /\ UNCHANGED <<node_vars, rx_vars, ctl_vars, call, status_threads, i2c>>

ThreadsNext ==
    \/ \E t \in LockThreads, events \in NodeThreadEvents :
         ThreadBegin(t, "node", events)
    \/ \E t \in LockThreads, events \in RxThreadEvents :
         ThreadBegin(t, "receiver", events)
    \/ \E t \in LockThreads : ThreadStep(t)

SpecThreads == Init /\ [][ThreadsNext]_vars

\* the receiver while it streams, with a socket that raises: datagrams,
\* receive errors, and the host commands S and X
UdpErrNext ==
    \/ \E path \in RecvPaths : RxUdpReceive(1, StreamFrame(0), path)
    \/ RxUdpError(1)
    \/ RxUdpObserveStop(1)
    \/ \E line \in {<<"S">>, <<"X">>}, env \in HostEnvs :
         RxHostCommand(1, line, env)

SpecUdpErr == UdpInit /\ [][UdpErrNext]_vars

\* calls of send_to_node by a receiver that runs its services
SendNext ==
    \/ RxStartAp(TRUE)
    \/ RxCreateTcp(TRUE)
    \/ \E command_code \in SentCodes, wait_for_response \in BOOLEAN,
          env \in SendEnvs : RxSendToNode(command_code, wait_for_response, env)

SpecSend == Init /\ [][SendNext]_vars

\* the control channel with the receiver's clock: one node connection
\* thread, and handlers that time their connections out
HbNext ==
    \/ NodeConnectWifi(TRUE)
    \/ RxStartAp(TRUE)
    \/ RxCreateTcp(TRUE)
    \/ \E t \in ConnIds : ConnConnect(t, TRUE)
    \/ \E t \in ConnIds : ConnStore(t)
    \/ \E t \in ConnIds : ConnHello(t, TRUE)
    \/ \E t \in ConnIds, ok \in BOOLEAN : ConnHeartbeat(t, ok)
    \/ NodeLog
    \/ \E i \in SockIds : RxTcpAccept(i)
    \/ \E i \in SockIds : RxHandlerStore(i)
    \/ \E i \in SockIds, n \in 1 .. MaxWire : RxHandlerRecv(i, n)
    \/ \E i \in SockIds : RxHandlerLeave(i)
    \/ \E i \in SockIds : RxHandlerTimeout(i)
    \/ HbTick

SpecHb == Init /\ [][HbNext]_vars

(***************************************************************************)
(* Properties.                                                             *)
(***************************************************************************)
\* the step is the node command server processing one frame
CommandStep == ncmds' = ncmds + 1

\* the first reply to the frame processed last starts with ERROR:
ErrorReply(c) == Len(c.replies) >= 1 /\ c.replies[1][1] = "ERROR:"

OkReply(c) == Len(c.replies) >= 1 /\ c.replies[1][1] = "OK:"

\* no handler has run: the state the handlers work on is as before
NoHandlerEffect ==
    /\ sensors' = sensors
    /\ reading_enabled' = reading_enabled
    /\ current_log_level' = current_log_level
    /\ emergency_stop' = emergency_stop
    /\ readers' = readers
    /\ node_reset' = node_reset

\* C1: whenever reading_enabled is true when the node command server
\* processes a frame, every code other than X, Q and P gets a reply starting
\* with ERROR: and no handler runs: sensor array, reading_enabled, log level
\* and emergency flag are unchanged and no reset happens.
C1_StreamingRejectsOthers ==
    [][(CommandStep /\ reading_enabled
          /\ lastCmd'.cmd \notin {<<"X">>, <<"Q">>, <<"P">>})
       => (ErrorReply(lastCmd') /\ NoHandlerEffect)]_vars

\* C1 witness: a D:2 frame was rejected while streaming
C1_Witness ==
    /\ lastCmd.frame = <<"D", ":", "2">>
    /\ lastCmd.is_streaming
    /\ ErrorReply(lastCmd)
    /\ reading_enabled

\* C2: for every frame the node command server receives it sends exactly one
\* reply, which starts with OK: when the handler reported success and with
\* ERROR: otherwise; the single reply to N is OK:Restarting node...
C2_ExactlyOneReply ==
    ncmds > 0 =>
      /\ Len(lastCmd.replies) = 1
      /\ lastCmd.replies[1][1] = (IF lastCmd.success THEN "OK:" ELSE "ERROR:")
      /\ (lastCmd.handled /\ lastCmd.cmd = <<"N">>)
           => lastCmd.replies = << <<"OK:", "Restarting node...">> >>

\* C2 witness: N was handled and answered, and the node resets
C2_Witness ==
    /\ lastCmd.handled /\ lastCmd.cmd = <<"N">>
    /\ Len(lastCmd.replies) = 1
    /\ node_reset

\* C3: on the node and on the receiver, once emergency_stop is true it never
\* becomes false again during the process run.
C3_EmergencyStopMonotonic ==
    [][(emergency_stop => emergency_stop')
       /\ (rx_emergency_stop => rx_emergency_stop')]_vars

\* C4: three consecutive failures of one initialization stage (node: WiFi
\* connect, sensor init; receiver: AP start, TCP socket create) bring the
\* process into SafeMode.
C4_ThreeFailuresOfAStageEnterSafeMode ==
    /\ (consec.wifi >= max_failures \/ consec.sensor >= max_failures)
         => node_main \in {"safe_mode", "halted"}
    /\ (rx_consec.ap >= max_failures \/ rx_consec.tcp >= max_failures)
         => rx_main \in {"safe_mode", "halted"}

C6_SafeModeAcceptsOnlyRestart ==
    [][(CommandStep /\ node_main = "safe_mode" /\ lastCmd'.cmd # <<"N">>)
       => (ErrorReply(lastCmd') /\ NoHandlerEffect)]_vars

\* the name of log level L
LevelName(L) ==
    CASE L = 0 -> "DEBUG" [] L = 1 -> "INFO" [] L = 2 -> "WARNING"
      [] L = 3 -> "ERROR"

\* the parameter texts that are an integer in 0..3
LevelTexts == {<<"0">>, <<"1">>, <<"2">>, <<"3">>}

\* the frame processed in this step is D:L, received while not streaming:
\* the threshold becomes L and the reply starts with OK:
DSetsLevel ==
    (lastCmd'.cmd = <<"D">> /\ lastCmd'.params # None
       /\ lastCmd'.params \in LevelTexts /\ ~lastCmd'.is_streaming)
      => /\ current_log_level' = DigitVal(lastCmd'.params[1])
         /\ OkReply(lastCmd')

\* the frame processed in this step is a bare D, received while not
\* streaming: the reply names level L and the threshold is unchanged
DQueryNames(L) ==
    (lastCmd'.cmd = <<"D">> /\ lastCmd'.params = None
       /\ ~lastCmd'.is_streaming)
      => /\ lastCmd'.replies
              = << <<"OK:", "Current log level: ", LevelName(L)>> >>
         /\ current_log_level' = current_log_level

\* C7 as stated: for every L in 0..3, when the node is not streaming, D:L
\* sets the threshold to L with an OK: reply, and a following bare D with
\* no other D:<param> in between replies OK: naming exactly L and leaves
\* the threshold unchanged.
C7_QueryReturnsLastSet ==
    [][CommandStep
       => /\ DSetsLevel
          /\ lastDSet \in 0..3 => DQueryNames(lastDSet)]_vars

\* C7 amended: the same, for a bare D that follows D:L with no other
\* D:<param> and no entry of the node into SafeMode in between (safe_mode()
\* sets the threshold to DEBUG).
C7_QueryReturnsLastSetUnlessSafeMode ==
    [][CommandStep
       => /\ DSetsLevel
          /\ (lastDSet \in 0..3 /\ levelWriter = "D")
               => DQueryNames(lastDSet)]_vars

\* C7 witness: D:2 was followed by a bare D that named WARNING
C7_Witness ==
    /\ lastCmd.prev_d_frame = <<"D", ":", "2">>
    /\ lastCmd.frame = <<"D">>
    /\ lastCmd.replies = << <<"OK:", "Current log level: ", "WARNING">> >>
    /\ current_log_level = 2

\* the frame processed in this step has an unknown code
UnknownCode == lastCmd'.cmd \notin CommandCodes

\* the rejected frame changed nothing and the server is receiving again
\* (unless the emergency flag, set by something else, ends its loop)
RejectedAndServing ==
    /\ ErrorReply(lastCmd')
    /\ NoHandlerEffect
    /\ ~emergency_stop => srv_pc' = "recv"

\* C8 as stated: an unknown command code, or a D parameter that is not an
\* integer in 0..3, gets a reply starting with ERROR:, changes no node state
\* and the command server goes on serving later commands.
C8_BadCommandRejected ==
    [][(CommandStep
          /\ (UnknownCode
                \/ (lastCmd'.cmd = <<"D">> /\ lastCmd'.params # None
                      /\ lastCmd'.params \notin LevelTexts)))
       => RejectedAndServing]_vars

\* C8 amended: the same for an unknown code or a non-empty D parameter
\* that is not an integer in 0..3; the empty parameter of the frame "D:" is
\* taken as no parameter and answered as the level query.
C8_BadCommandRejectedUnlessEmpty ==
    [][(CommandStep
          /\ (UnknownCode
                \/ (lastCmd'.cmd = <<"D">> /\ lastCmd'.params # None
                      /\ lastCmd'.params # <<>>
                      /\ lastCmd'.params \notin LevelTexts)))
       => RejectedAndServing]_vars

\* C8 witness: D:5 was rejected and the next frame, P, was served
C8_Witness ==
    /\ lastCmd.prev_d_frame = <<"D", ":", "5">>
    /\ lastCmd.frame = <<"P">>
    /\ OkReply(lastCmd)

\* C9: within one streaming session the sequence numbers of consecutive
\* read-loop ticks are n and (n+1) mod 65536, every sequence number lies in
\* 0..65535, and 65535 is followed by 0.
C9_SequenceWraps ==
    /\ [](\A t \in ReaderIds :
            readers[t].sent # -1 => readers[t].sent \in 0..65535)
    /\ [][\A t \in ReaderIds :
            (readers[t].sent # -1 /\ readers'[t].pc = "loop"
               /\ readers'[t].sent # readers[t].sent)
              => readers'[t].sent = (IF readers[t].sent = 65535 THEN 0
                                     ELSE readers[t].sent + 1)]_vars

\* C9 witness: a tick carries sequence number 0, which only the wrap gives
C9_Witness == \E t \in ReaderIds : readers[t].pc = "loop" /\ readers[t].sent = 0

\* the datagram processed last is a well-formed frame with sequence number n,
\* decoded, and last_seq was set when it arrived
SawFrame(n) ==
    /\ rx_seen.frame = StreamFrame(n)
    /\ rx_seen.path = "recvfrom"
    /\ rx_seen.prev # <<>>

Gap(n) == (n - (rx_seen.prev[1] + 1)) % 65536

RelayedFrame(n) ==
    /\ rx_seen.frame = StreamFrame(n)
    /\ rx_seen.path = "recvfrom"

Attempt(t) ==
    /\ conn_threads[t].pc = "connect"
    /\ conn_threads'[t].pc \in {"store", "failed"}

\* C12: whenever the stored control-connection handle (receiver_tcp on the
\* node, node_conn on the receiver) is replaced by a new socket, the previous
\* handle is closed in the same locked step, before the new one is stored.
C12_PreviousClosedOnReplace ==
    [][/\ (receiver_tcp # 0 /\ receiver_tcp' \notin {0, receiver_tcp})
            => socks'[receiver_tcp].st = "closed"
       /\ \A g \in DOMAIN rx_gens :
            (rx_gens[g].node_conn # 0
               /\ rx_gens'[g].node_conn \notin {0, rx_gens[g].node_conn})
              => rx_gens[g].node_conn \in rx_gens'[g].closed_conns]_vars

\* a second socket has replaced a stored first one, and a second accepted
\* connection has replaced the first on the receiver
C12_Witness ==
    /\ ctl_store.prev # 0 /\ ctl_store.new = receiver_tcp
    /\ socks[ctl_store.prev].st = "closed"
    /\ \E g \in DOMAIN rx_gens :
         rx_gens[g].node_conn = 2 /\ 1 \in rx_gens[g].closed_conns

\* C13: each device has at most one active control connection at every
\* moment: the node never holds two open control sockets, and the receiver
\* never has two handle_client loops serving at the same time.
C13_AtMostOneActive ==
    /\ Cardinality({k \in SockIds : socks[k].st = "open"}) <= 1
    /\ Cardinality({i \in SockIds : Serving(i)}) <= 1

\* the receiver's half of C13
C13_ReceiverServesOne ==
    Cardinality({i \in SockIds : Serving(i)}) <= 1

\* C14: after a heartbeat send has failed, the socket is closed and
\* receiver_tcp no longer refers to it before the thread starts its next
\* connection attempt.
C14_TornDownBeforeNextAttempt ==
    [][\A t \in ConnIds :
         (Attempt(t) /\ conn_threads[t].lost_by = "send")
           => /\ socks[conn_threads[t].sock].st = "closed"
              /\ receiver_tcp # conn_threads[t].sock]_vars

\* C15: after the connection was lost, by a failed connect or by a failed
\* send, every new connection attempt is preceded by the full backoff wait.
C15_BackoffBeforeAttempt ==
    [][\A t \in ConnIds :
         (Attempt(t) /\ conn_threads[t].lost_by # "none")
           => conn_threads[t].waited]_vars

\* the part of C15 the code keeps: after the handler of the outer try
C15_BackoffAfterError ==
    [][\A t \in ConnIds :
         (Attempt(t) /\ conn_threads[t].lost_by = "error")
           => conn_threads[t].waited]_vars

\* C16: on each control connection the node establishes, NODE_CONNECTED is
\* sent exactly once, and before any HEARTBEAT frame on that connection.
C16_HelloOnceThenHeartbeats ==
    /\ \A k \in SockIds : socks[k].hello <= 1 /\ ~socks[k].hb_first
    /\ \A k \in SockIds : socks[k].hb => socks[k].hello = 1
    /\ \A t \in ConnIds :
         conn_threads[t].pc = "loop" => socks[conn_threads[t].sock].hello = 1

C16_Witness ==
    \E k \in SockIds : socks[k].hello = 1 /\ socks[k].hb

\* C20: every HEARTBEAT frame the node sends is handled as a heartbeat by
\* the receiver (last_heartbeat is updated) and is never written to the
\* host, whatever LOG frames are sent around it on the same connection.
C20_HeartbeatHandledNotForwarded ==
    (\E j \in 1 .. Len(ctl_recv.frames) : ctl_recv.frames[j][1] = "HEARTBEAT")
      => ctl_recv.kind = "heartbeat" /\ ctl_recv.host = <<>>

\* a heartbeat that arrives alone is handled as C20 says
C20_LoneHeartbeatHandled ==
    (Len(ctl_recv.frames) = 1 /\ ctl_recv.frames[1][1] = "HEARTBEAT")
      => ctl_recv.kind = "heartbeat" /\ ctl_recv.host = <<>>

\* the node processes an N that it accepts
AcceptedN == CommandStep /\ lastCmd'.handled /\ lastCmd'.cmd = <<"N">>

\* C17: when the node accepts N while not streaming, the reply
\* OK:Restarting node... is sent before the hardware reset, and the hardware
\* reset always follows the accepted N.
C17_ReplyThenResetAlways ==
    [][AcceptedN => /\ lastCmd'.replies = << <<"OK:", "Restarting node...">> >>
                    /\ node_reset']_vars

\* the part of C17 the code keeps: a reset by N comes after the notice
C17_ReplyBeforeReset ==
    [][(CommandStep /\ node_reset')
         => /\ lastCmd'.handled /\ lastCmd'.cmd = <<"N">>
            /\ lastCmd'.replies = << <<"OK:", "Restarting node...">> >>]_vars

\* the code and the parameter of the host command line processed last
RelayCmd == ParseCommand(Upper(Strip(rx_relay.line)))

\* the frames the receiver sent to the node's command port for that line
RelaySent ==
    {rx_relay.trace[i] : i \in {j \in 1 .. Len(rx_relay.trace) :
                                   rx_relay.trace[j][1] = "send_to_node"}}

\* the parameter is, after strip(), a string of digits with a value 0..3
LevelDigits(params) ==
    /\ Strip(params) # <<>>
    /\ \A i \in 1 .. Len(Strip(params)) : IsDigit(Strip(params)[i])
    /\ DigitsValue(Strip(params)) <= 3

RelayedCodes == {<<"N">>, <<"C">>, <<"I">>, <<"S">>, <<"X">>, <<"Q">>, <<"D">>,
                 <<"P">>}

EventAt(tr, e) ==
    IF \E i \in 1 .. Len(tr) : tr[i] = e
    THEN CHOOSE i \in 1 .. Len(tr) : tr[i] = e /\ \A j \in 1 .. (i - 1) : tr[j] # e
    ELSE 0

HostStep == rx_ncmds' = rx_ncmds + 1

\* C19: on host S with no consumer running, the UDP socket is bound before S
\* is relayed, the consumer is started only when the node replied OK, and on
\* a failed relay the socket is closed and udp_server stays unset.
C19_BindRelayThenConsume ==
    [][(HostStep /\ ParseCommand(Upper(Strip(rx_relay'.line))).cmd = <<"S">>
          /\ ~rx_relay'.udp_server)
       => LET tr == rx_relay'.trace
              o == rx_gens'[rx_relay'.gen]
              bind == EventAt(tr, <<"create_udp_socket">>)
              relay == EventAt(tr, SendToNode(<<"S">>))
              start == EventAt(tr, <<"start_udp_server">>)
              close == EventAt(tr, <<"close_udp_socket">>)
          IN /\ bind = 1
             /\ relay # 0 => bind < relay
             /\ start # 0 => (rx_relay'.node_ok /\ relay # 0 /\ relay < start)
             /\ o.udp_server <=> start # 0
             /\ (relay # 0 /\ ~rx_relay'.node_ok)
                  => (close > relay /\ ~o.udp_server /\ ~o.udp_socket)]_vars

\* S was relayed after the bind and answered OK; the consumer runs
C19_Witness ==
    /\ rx_relay.line = <<"S">>
    /\ rx_relay.trace = <<<<"create_udp_socket">>, <<"send_to_node", "S">>,
                          <<"start_udp_server">>>>
    /\ rx_gens[rx_relay.gen].udp_server
    /\ rx_gens[rx_relay.gen].consumer.running

(***************************************************************************)
(* C21: the receiver closes a node control connection, and forgets it if   *)
(* node_conn still refers to it, only once nothing has been received on it *)
(* for more than HEARTBEAT_TIMEOUT seconds; a recv() of a frame of any     *)
(* type restarts the interval, so that a connection on which a frame       *)
(* arrived within the last HEARTBEAT_TIMEOUT seconds is never closed for   *)
(* inactivity.                                                             *)
(***************************************************************************)
C21_ClosedAfterSilenceOnly ==
    [][\A i \in SockIds :
         /\ (hb_clock'[i].timed_out /\ ~hb_clock[i].timed_out)
              => /\ hb_clock[i].idle > HEARTBEAT_TIMEOUT
                 /\ hb_clock[i].quiet > HEARTBEAT_TIMEOUT
                 /\ wire[i] = <<>>
                 /\ i \in rx_gens'[handlers[i].gen].closed_conns
                 /\ rx_gens'[handlers[i].gen].node_conn # i
         /\ ( /\ handlers[i].pc = "serve" /\ handlers'[i].pc = "serve"
              /\ i \notin rx_gens'[handlers[i].gen].closed_conns
              /\ Len(wire'[i]) < Len(wire[i]) )
              => hb_clock'[i].idle = 0]_vars

\* a connection that delivered a heartbeat was later closed for inactivity
C21_Witness ==
    \E i \in SockIds :
        /\ hb_clock[i].timed_out /\ last_heartbeat = i
        /\ handlers[i].pc = "done"
        /\ i \in rx_gens[handlers[i].gen].closed_conns

(***************************************************************************)
(* C22: every call of send_to_node closes the command socket it opened     *)
(* before it returns, whatever happens in between: connect failure, send   *)
(* failure, response timeout, empty response, OK response, ERROR response  *)
(* or no wait for a response. The close is the last socket event and there *)
(* is one close per socket opened.                                         *)
(***************************************************************************)
C22_SocketAlwaysClosed ==
    call.fn = "send_to_node" =>
        LET tr == call.result.trace
        IN /\ Cardinality({j \in DOMAIN tr : tr[j] = "socket"})
                = Cardinality({j \in DOMAIN tr : tr[j] = "close"})
           /\ "socket" \in Range(tr) => tr[Len(tr)] = "close"
           /\ call.args[3].fail # "socket" => "socket" \in Range(tr)

\* a call whose recv() timed out returned failure with its socket closed
C22_Witness ==
    /\ call.fn = "send_to_node"
    /\ call.args[2] /\ call.args[3].fail = "recv"
    /\ ~call.result.success
    /\ call.result.trace = <<"socket", "connect", "send", "close">>

(***************************************************************************)
(* C23, as stated: in a read pass, for every slot that is read, a read     *)
(* error and a quaternion whose length is not 4 both put a zero quaternion *)
(* in the slot's frame entry and mark the slot absent.                     *)
(***************************************************************************)
ReadOf(i) == call.args[2].quat[i]

C23_ErrorOrBadLengthMarksAbsent ==
    call.fn = "read_pass" =>
        \A i \in Slots :
            (call.result.checked[i] /\ ReadOf(i) \in {"raises", "short"})
                => call.result.buffer[i] = "zero" /\ ~sensors[i]

(***************************************************************************)
(* C23, amended: a read error puts a zero quaternion in the slot's frame   *)
(* entry and marks the slot absent; a quaternion whose length is not 4     *)
(* puts a zero quaternion in the entry and leaves the slot present; in     *)
(* both cases every one of the 8 slots is selected and gets its entry.     *)
(***************************************************************************)
C23_ErrorMarksAbsentBadLengthDoesNot ==
    call.fn = "read_pass" =>
        /\ \A i \in Slots :
             /\ (call.result.checked[i] /\ ReadOf(i) = "raises")
                  => call.result.buffer[i] = "zero" /\ ~sensors[i]
             /\ (call.result.checked[i] /\ ReadOf(i) = "short")
                  => call.result.buffer[i] = "zero" /\ sensors[i]
             /\ (call.result.checked[i] /\ ReadOf(i) = "ok")
                  => call.result.buffer[i] = "quat" /\ sensors[i]
             /\ ~call.result.checked[i]
                  => call.result.buffer[i] = "zero" /\ ~sensors[i]
        /\ DOMAIN call.result.buffer = Slots
        /\ \A i \in Slots :
             \E j \in DOMAIN call.result.mux : call.result.mux[j].idx = i

\* a present slot returned a quaternion of the wrong length: its entry is
\* zero and the slot is still present
C23_Witness ==
    /\ call.fn = "read_pass"
    /\ \E i \in Slots :
         /\ call.args[1][i] /\ call.result.checked[i]
         /\ ReadOf(i) = "short"
         /\ call.result.buffer[i] = "zero" /\ sensors[i]

(***************************************************************************)
(* C24: a sensor slot that is absent becomes present only inside           *)
(* init_sensors, run by main() at startup or by the I command; no other    *)
(* step of the node (the read loop with its health check, the C command,   *)
(* any other command) turns an absent slot present; and the sensor array   *)
(* has exactly 8 slots at all times.                                       *)
(***************************************************************************)
InitSensorsStep ==
    \/ /\ node_main = "sensors"
       /\ node_main' # node_main \/ failures' # failures \/ consec' # consec
    \/ ncmds' = ncmds + 1 /\ lastCmd'.cmd = <<"I">>

C24_PresentOnlyByInit ==
    [][/\ (\E i \in Slots : ~sensors[i] /\ sensors'[i]) => InitSensorsStep
       /\ DOMAIN sensors' = Slots
       /\ Cardinality(DOMAIN sensors') = NumSensors]_vars

\* the C command ran on an array with an absent slot and left it absent
C24_Witness ==
    /\ lastCmd.cmd = <<"C">> /\ lastCmd.handled
    /\ \E i \in Slots : ~sensors[i]
    /\ \E i \in Slots : sensors[i]

(***************************************************************************)
(* C25: for every logical sensor index c in 0..7, every channel selection  *)
(* made for that sensor, in init_sensors, check_sensor_status, the health  *)
(* check and the read loop, writes the single byte 1 << (c // 2) to the    *)
(* multiplexer, on the first try and on the immediate retry.               *)
(***************************************************************************)
C25_MuxPayload ==
    call.fn \in {"init_sensors", "check_sensor_status", "read_pass"} =>
        \A j \in DOMAIN call.result.mux :
            LET c == call.result.mux[j].idx
            IN /\ c \in 0 .. 7
               /\ call.result.mux[j].data = 2 ^ (c \div 2)
               /\ call.result.mux[j].data \in 0 .. 255

\* a read pass on a bus whose first write fails selected sensor 7 twice,
\* with the byte 8 both times
C25_Witness ==
    /\ call.fn = "read_pass" /\ call.args[2].mux = "retry_ok"
    /\ \E j \in DOMAIN call.result.mux :
         /\ j + 1 \in DOMAIN call.result.mux
         /\ call.result.mux[j] = [idx |-> 7, data |-> 8]
         /\ call.result.mux[j + 1] = [idx |-> 7, data |-> 8]

(***************************************************************************)
(* C26: init_sensors returns success if and only if at least one of the 8  *)
(* sensors was constructed, and it runs the bus-recovery sequence exactly  *)
(* when none was constructed, in which case it returns failure.            *)
(***************************************************************************)
Constructed(hw) ==
    {i \in Slots : select_sensor(i \div 2, hw.mux).ok /\ hw.slot[i] >= 0}

C26_SuccessIffOneConstructed ==
    call.fn = "init_sensors" =>
        /\ call.result.success <=> Constructed(call.args[2]) # {}
        /\ call.result.recovery <=> Constructed(call.args[2]) = {}
        /\ call.result.recovery => ~call.result.success
        /\ \A i \in Slots : sensors[i] <=> i \in Constructed(call.args[2])

\* no sensor could be constructed, although the bus worked: the recovery
\* ran and init_sensors returned failure
C26_Witness ==
    /\ call.fn = "init_sensors"
    /\ call.args[2].mux = "ok"
    /\ \A i \in Slots : call.args[2].slot[i] = -1 /\ ~sensors[i]
    /\ call.result.recovery /\ ~call.result.success

(***************************************************************************)
(* C27: after the emergency stop is set on the node, every long-running    *)
(* loop of the node (the sensor read loop, the control-channel client, the *)
(* command server and its client handler, the status reporter, main's      *)
(* monitor loop) eventually sees the flag and ends; no thread stays in a   *)
(* loop, a lock or a socket call.                                          *)
(***************************************************************************)
NodeLoopsEnded ==
    \/ node_reset
    \/ /\ \A t \in ReaderIds : readers[t].pc = "idle"
       /\ \A t \in ConnIds : conn_threads[t].pc \in {"idle", "done"}
       /\ srv_pc \in {"none", "exit"}
       /\ ~status_threads
       /\ node_main \in {"halted", "safe_mode"}

C27_LoopsEndAfterStop == emergency_stop ~> NodeLoopsEnded

\* Q was handled while the node streamed: the read loop, the command
\* server, the status thread, the control-channel client and main have ended
C27_Witness ==
    /\ emergency_stop /\ ~node_reset
    /\ lastCmd.cmd = <<"Q">> /\ lastCmd.is_streaming
    /\ \A t \in ReaderIds : readers[t].pc = "idle"
    /\ \A t \in ConnIds : conn_threads[t].pc = "done"
    /\ srv_pc = "exit" /\ ~status_threads /\ node_main = "halted"

(***************************************************************************)
(* C28: after Q has set the emergency stop, the node comes to rest with    *)
(* streaming stopped (reading_enabled false, the read loop and its socket  *)
(* ended) and with the control-channel socket closed and receiver_tcp      *)
(* cleared.  Stated on the state in which the node has come to rest: Q was *)
(* handled, main has halted and every thread has ended, so no further step *)
(* of the node can change receiver_tcp.                                    *)
(***************************************************************************)
RestAfterQ ==
    /\ lastCmd.cmd = <<"Q">> /\ emergency_stop /\ ~node_reset
    /\ node_main = "halted"
    /\ \A t \in ReaderIds : readers[t].pc = "idle"
    /\ \A t \in ConnIds : conn_threads[t].pc \in {"idle", "done"}
    /\ srv_pc = "exit" /\ ~status_threads

C28_StreamingStoppedAtRest == RestAfterQ => ~reading_enabled

C28_ControlClosedAtRest ==
    RestAfterQ => /\ ~reading_enabled
                  /\ receiver_tcp = 0
                  /\ \A k \in SockIds : socks[k].st # "open"

(***************************************************************************)
(* C29: no thread performs network I/O (a socket send, recv, connect or    *)
(* accept) while it holds one of the state locks, tcp_lock included, also  *)
(* when the I/O is done by log() called inside a critical section.         *)
(***************************************************************************)
IoUnderLock(trace) ==
    \E n \in 1 .. Len(trace) : trace[n].op = "io" /\ Held(trace, n) # {}

C29_NoIoUnderLock == call.fn \in LockFns => ~IoUnderLock(call.result)

\* the same for the locks other than log()'s own tcp_lock
C29_NoIoUnderStateLock ==
    call.fn \in LockFns =>
        \A n \in 1 .. Len(call.result) :
            call.result[n].op = "io" => Held(call.result, n) \subseteq {"tcp_lock"}

(***************************************************************************)
(* C30: when the running node has lost its WiFi association and its three  *)
(* reconnection attempts have failed, the failure counter of main() is     *)
(* incremented and the SafeMode rule (safe mode at the third failure,      *)
(* otherwise another pass) applies to it.                                  *)
(***************************************************************************)
\* the step main() takes out of its monitor loop when the reconnection
\* attempts are exhausted (the only reset that no command asked for)
ReconnectExhausted ==
    /\ node_main = "running" /\ ~emergency_stop /\ ~node_reset
    /\ node_reset' /\ ncmds' = ncmds

C30_ExhaustionCountsAsFailure ==
    [][ReconnectExhausted =>
         /\ failures' = failures + 1
         /\ node_main' = IF failures + 1 >= max_failures THEN "safe_mode"
                         ELSE "wifi"]_vars

\* what the code does instead: the hardware reset, the counter untouched
C30_ExhaustionResets ==
    [][ReconnectExhausted => failures' = failures /\ node_main' = node_main]_vars

(***************************************************************************)
(* C31: successive health checks of the read loop probe the slots in       *)
(* round-robin order: each check probes the slot after the one the check   *)
(* before it probed, so that 8 checks in a row probe each slot once.       *)
(***************************************************************************)
C31_RoundRobin ==
    (call.fn = "sensor_to_check" /\ call.args.prev # -1) =>
        call.result.slot = (call.args.prev + 1) % NumSensors

\* what holds instead: the slot is the time of the check modulo 8
C31_SlotIsTimeModEight ==
    call.fn = "sensor_to_check" =>
        call.result.slot = call.result.current_time % 8

(***************************************************************************)
(* C32: every pass of every long-running loop feeds the watchdog, also a   *)
(* pass that ends on a socket timeout (a pass that leaves the loop aside). *)
(***************************************************************************)
Feeds(trace) == \E n \in 1 .. Len(trace) : trace[n] = "feed_watchdog"

Leaves(trace) == Len(trace) > 0 /\ trace[Len(trace)] = "break"

C32_EveryPassFeeds ==
    (call.fn \in NodeLoops \cup RxLoops /\ ~Leaves(call.result)) =>
        Feeds(call.result)

\* the loops of the receiver, the control-channel client and the read loop do
C32_FeedingLoops ==
    (/\ call.fn \in (NodeLoops \cup RxLoops)
                    \ {"tcp_command_server_thread", "handle_command_client"}) =>
        Feeds(call.result)

(***************************************************************************)
(* C33: at most one sensor_reading_thread is in its read loop at any time, *)
(* for every sequence of S, X and I, an X directly followed by S included. *)
(***************************************************************************)
InLoop == {t \in ReaderIds : readers[t].pc = "loop"}

C33_AtMostOneReader == Cardinality(InLoop) <= 1

\* two read loops that both go on: streaming is enabled and both are in
\* the loop
C33_TwoReadersStay == ~(Cardinality(InLoop) >= 2 /\ reading_enabled)

(***************************************************************************)
(* C34: after S was answered with "Sensor reading started.", streaming     *)
(* stays enabled until a later command or a failure ends it; the exit path *)
(* of a read loop that an earlier X stopped does not clear reading_enabled *)
(* for the loop S started.  (No Q, restart or read failure occurs in       *)
(* SpecStream, so only a command may clear the flag.)                      *)
(***************************************************************************)
StartedByS ==
    /\ lastCmd.cmd = <<"S">> /\ lastCmd.handled /\ lastCmd.success
    /\ ~lastCmd.is_streaming

C34_StreamingStaysAfterS ==
    [][(StartedByS /\ reading_enabled /\ ncmds' = ncmds /\ ~emergency_stop)
         => reading_enabled']_vars

(***************************************************************************)
(* C35: no two node threads use the I2C bus at the same time: between a    *)
(* thread's channel selection and the end of the sensor operation that     *)
(* follows it, no other thread selects a channel or operates a sensor;     *)
(* init_sensors run by I right after X, while the read loop is finishing   *)
(* its pass, included.                                                     *)
(***************************************************************************)
OnBus == {th \in {"reader", "handler"} : i2c[th] \in {"bus", "init_bus", "check_bus"}}

C35_BusExclusive == Cardinality(OnBus) <= 1

\* the uses made under sensor_lock exclude each other
C35_LockedUsesExclusive == ~(i2c.reader = "bus" /\ i2c.handler = "check_bus")

(***************************************************************************)
(* C36: each device runs at most one instance of each service thread at a  *)
(* time (control-channel client or host command reader, command server or  *)
(* TCP accept loop, status reporter), across every retry of main()'s       *)
(* initialization loop and the entry into safe mode.                       *)
(***************************************************************************)
C36_OneInstanceEach ==
    call.fn \in {"node main", "receiver main"} =>
        /\ call.result.client <= 1
        /\ call.result.server <= 1
        /\ call.result.status <= 1

(***************************************************************************)
(* C37: the locks of each device are deadlock-free: no thread waits        *)
(* forever for a lock of its device, and no thread takes again a           *)
(* non-reentrant lock it already holds (for example through log() called   *)
(* inside a critical section).  A thread waits forever exactly when it is  *)
(* in a set of waiting threads each of which waits for a lock held inside  *)
(* the set (a thread that waits for a lock it holds itself is such a set). *)
(***************************************************************************)
WaitsForever(S) ==
    /\ S # {}
    /\ \A t \in S :
         /\ Waits(t)
         /\ \E u \in S : thr[t].events[thr[t].pos].what \in HeldBy(u)

C37_NoDeadlock == ~ \E S \in SUBSET LockThreads : WaitsForever(S)

\* a thread waits for a lock while another holds it together with a second
\* lock, taken by log() inside a critical section
C37_Witness ==
    \E t \in LockThreads, u \in LockThreads :
        /\ t # u /\ Waits(t)
        /\ thr[t].events[thr[t].pos].what \in HeldBy(u)
        /\ Cardinality(HeldBy(u)) = 2
        /\ "tcp_lock" \in HeldBy(u)

(***************************************************************************)
(* C38: on the receiver, whenever cmd_handler.udp_server is set, its       *)
(* consumer loop is running on an open UDP socket; so a host S is never    *)
(* answered as already running while no consumer is receiving (for example *)
(* after the consumer stopped itself on more than 10 consecutive errors).  *)
(***************************************************************************)
C38_ServerSetMeansConsuming ==
    \A g \in 1..Len(rx_gens) :
        rx_gens[g].udp_server =>
            /\ rx_gens[g].consumer.pc = "run"
            /\ rx_gens[g].consumer.running
            /\ rx_gens[g].udp_socket

\* the host command S found udp_server set and did nothing
AnsweredAlreadyRunning(g) ==
    /\ rx_ncmds' = rx_ncmds + 1
    /\ rx_relay'.line = <<"S">> /\ rx_relay'.gen = g
    /\ rx_gens[g].udp_server
    /\ rx_gens'[g] = rx_gens[g]

C38_AlreadyRunningMeansConsuming ==
    [][\A g \in 1..Len(rx_gens) :
          AnsweredAlreadyRunning(g) => rx_gens[g].consumer.pc = "run"]_vars

(***************************************************************************)
(* C39: on the node, S while streaming and X while not streaming are       *)
(* no-ops that reply OK: S does not start a second read loop and leaves    *)
(* reading_enabled true, X leaves reading_enabled false; applying S twice  *)
(* or X twice leaves the same state as applying it once.                   *)
(***************************************************************************)
\* the last frame was S received while streaming, or X while not streaming
RepeatedCommand ==
    /\ lastCmd.frame \in {<<"S">>, <<"X">>}
    /\ lastCmd.is_streaming = (lastCmd.frame = <<"S">>)

\* as claimed: both are answered OK
C39_RepeatedCommandRepliesOK ==
    RepeatedCommand =>
        /\ Len(lastCmd.replies) = 1
        /\ lastCmd.replies[1][1] = "OK:"

\* as the code has it: the command server answers S while streaming with an
\* ERROR and does not call start_streaming(); X while not streaming is
\* answered OK; neither changes the flag, the read loops or the sensors; and
\* each handler applied twice gives the state it gives applied once
RepeatedCommandNoOp ==
    (/\ ncmds' = ncmds + 1
     /\ lastCmd'.frame \in {<<"S">>, <<"X">>}
     /\ reading_enabled = (lastCmd'.frame = <<"S">>))
    => /\ reading_enabled' = reading_enabled
       /\ readers' = readers
       /\ sensors' = sensors
       /\ Len(lastCmd'.replies) = 1
       /\ lastCmd'.replies[1][1] =
            (IF lastCmd'.frame = <<"S">> THEN "ERROR:" ELSE "OK:")

HandlersIdempotent ==
    /\ \A frame \in {<<"S">>, <<"X">>} :
         LET once == handle_command_client(frame, NodeSt, NoEnv).st
         IN handle_command_client(frame, once, NoEnv).st = once
    /\ LET once == start_streaming(None, NodeSt, NoEnv)
           twice == start_streaming(None, once.st, NoEnv)
       IN twice.st = once.st /\ twice.success
    /\ LET once == stop_streaming(None, NodeSt, NoEnv)
           twice == stop_streaming(None, once.st, NoEnv)
       IN twice.st = once.st /\ twice.success /\ ~twice.st.re

C39_RepeatedCommandsAreNoOps ==
    [][RepeatedCommandNoOp]_vars /\ []HandlersIdempotent

\* an S received while streaming, after an earlier command
C39_Witness ==
    /\ lastCmd.frame = <<"S">> /\ lastCmd.is_streaming /\ ncmds >= 2
    /\ reading_enabled
    /\ \E t \in ReaderIds : readers[t].pc # "idle"

(***************************************************************************)
(* C40: in the receiver's UDP consumer a datagram that fails parsing (no   *)
(* SEQ: prefix, fewer than two comma-separated fields, or a non-integer    *)
(* sequence) leaves last_seq unchanged, reports no loss, is still written  *)
(* to the host after DATA:, and does not stop the consumer loop.           *)
(***************************************************************************)
MalformedRelayed(g, data) ==
    /\ rx_gens'[g].consumer.last_seq = rx_gens[g].consumer.last_seq
    /\ rx_lost' = <<>>
    /\ rx_out' = <<"DATA:">> \o data
    /\ rx_gens'[g].consumer.pc = "run"
    /\ rx_gens'[g].consumer.running

C40_MalformedDatagramRelayed ==
    [][\A data \in MalformedFrames, path \in RecvPaths :
          RxUdpReceive(1, data, path) => MalformedRelayed(1, data)]_vars

\* a malformed datagram was received after a well-formed one had set last_seq
C40_Witness ==
    /\ rx_seen.frame \in MalformedFrames
    /\ rx_seen.path = "recvfrom"
    /\ rx_seen.prev # <<>>
    /\ rx_gens[1].consumer.last_seq = rx_seen.prev
    /\ rx_out = <<"DATA:">> \o rx_seen.frame
    /\ rx_gens[1].consumer.pc = "run"

=============================================================================
